---- MODULE Spec2Model ----
(***************************************************************************)
(* Forecast 2.0 pipeline: harmonization (data_harmonizer.py), validation   *)
(* (data_validator.py), quality report (quality_checker.py) and their      *)
(* orchestration (main.py).                                                *)
(*                                                                         *)
(* Python values are records tagged with their type:                       *)
(*   None   [t |-> "None"]                                                 *)
(*   str    [t |-> "str", s |-> <<one-character strings>>]                 *)
(*          [t |-> "str", layout, at, off]  a text laid out as a date/time *)
(*   int    [t |-> "int", k |-> "fin", v |-> n]; k = "huge" is 10**400,    *)
(*          an int beyond the range of a double (v its sign)               *)
(*   float  [t |-> "float", k |-> "fin", v |-> tenths]; k = "inf" (v the   *)
(*          sign) and k = "nan" are the IEEE specials                      *)
(*   bool   [t |-> "bool", b |-> TRUE or FALSE]                            *)
(* A d.get(key) of Python reads a missing key as None, so a missing key    *)
(* and a key bound to None are the same value here.                        *)
(* A call that can raise returns [exc |-> "none" or the exception's name,  *)
(* val |-> the value when exc = "none"].                                   *)
(***************************************************************************)
EXTENDS Integers, Sequences, FiniteSets, TLC

VARIABLES
    record,       \* the raw record handed to the harmonizer (None when unused)
    doc,          \* the unified document being built / validated (None before)
    result,       \* what validate returned for doc (None before)
    raised,       \* name of the exception that escaped the last call, or "none"
    strict_mode,  \* DataValidator.strict_mode
    now,          \* datetime.now(timezone.utc), in minutes since the model's epoch
    pc,           \* position of the caller: "raw", "document", "validated", ...
    records,      \* the batch of documents handed to generate_report
    stats,        \* the run statistics handed to generate_report
    report,       \* what generate_report returned (None before)
    divisions,    \* how many divisions generate_report evaluated
    dry_run,      \* Forecast2Pipeline.dry_run
    feeds,        \* what each extractor returns when run calls it
    faults,       \* the collaborators that fail during the run
    stage,        \* position of Forecast2Pipeline.run
    extracted_data, \* the raw records by source that extract_data returned (None before)
    cursor,       \* how many items the loop of the current stage has taken
    results,      \* the list transform_data builds and returns
    valid,        \* the list validate_data builds and returns
    calls,        \* the harmonizer and validator calls made so far, in order
    collection,   \* the documents of the MongoDB collection
    load_result,  \* what load_data returned (None before)
    status,       \* the local variable status of run
    status_files  \* every status_data written by write_status_file, in order

\* the variables of a pipeline run
run_vars == <<dry_run, feeds, faults, stage, extracted_data, cursor, results, valid, calls,
              collection, load_result, status, status_files>>

vars == <<record, doc, result, raised, strict_mode, now, pc, records, stats, report, divisions,
          dry_run, feeds, faults, stage, extracted_data, cursor, results, valid, calls,
          collection, load_result, status, status_files>>

-----------------------------------------------------------------------------
(* Python values *)

PyNone == [t |-> "None"]

PyStr(chars) == [t |-> "str", s |-> chars]

PyInt(n) == [t |-> "int", k |-> "fin", v |-> n]

PyHugeInt == [t |-> "int", k |-> "huge", v |-> 1]

PyFloat(tenths) == [t |-> "float", k |-> "fin", v |-> tenths]

PyInf == [t |-> "float", k |-> "inf", v |-> 1]

PyNegInf == [t |-> "float", k |-> "inf", v |-> -1]

PyNaN == [t |-> "float", k |-> "nan", v |-> 0]

PyBool(b) == [t |-> "bool", b |-> b]

Ok(x) == [exc |-> "none", val |-> x]

Raise(name) == [exc |-> name, val |-> PyNone]

IsNone(x) == x.t = "None"

IsText(x) == x.t = "str" /\ "s" \in DOMAIN x

IsTimeText(x) == x.t = "str" /\ "layout" \in DOMAIN x

IsNumber(x) == x.t \in {"int", "float"}

\* bool(x): the truth value Python gives x in `if not x`
Truthy(x) ==
    CASE x.t = "None" -> FALSE
      [] IsText(x) -> x.s # <<>>
      [] IsTimeText(x) -> TRUE
      [] x.t = "int" -> ~(x.k = "fin" /\ x.v = 0)
      [] x.t = "float" -> ~(x.k = "fin" /\ x.v = 0)
      [] x.t = "bool" -> x.b
      [] OTHER -> TRUE

-----------------------------------------------------------------------------
(* Characters and text *)

LowerLetters ==
    <<"a","b","c","d","e","f","g","h","i","j","k","l","m",
      "n","o","p","q","r","s","t","u","v","w","x","y","z">>

UpperLetters ==
    <<"A","B","C","D","E","F","G","H","I","J","K","L","M",
      "N","O","P","Q","R","S","T","U","V","W","X","Y","Z">>

Digits == <<"0","1","2","3","4","5","6","7","8","9">>

IndexIn(seq, c) ==
    IF \E i \in 1..Len(seq) : seq[i] = c
    THEN CHOOSE i \in 1..Len(seq) : seq[i] = c
    ELSE 0

UpperChar(c) == IF IndexIn(LowerLetters, c) > 0 THEN UpperLetters[IndexIn(LowerLetters, c)] ELSE c

LowerChar(c) == IF IndexIn(UpperLetters, c) > 0 THEN LowerLetters[IndexIn(UpperLetters, c)] ELSE c

\* str.upper()
Upper(chars) == [i \in 1..Len(chars) |-> UpperChar(chars[i])]

Lower(chars) == [i \in 1..Len(chars) |-> LowerChar(chars[i])]

IsDigit(c) == IndexIn(Digits, c) > 0

DigitVal(c) == IndexIn(Digits, c) - 1

AllDigits(chars) == \A i \in 1..Len(chars) : IsDigit(chars[i])

RECURSIVE DigitsValue(_)
DigitsValue(chars) ==
    IF chars = <<>> THEN 0
    ELSE 10 * DigitsValue(SubSeq(chars, 1, Len(chars) - 1)) + DigitVal(chars[Len(chars)])

RECURSIVE NatDigits(_)
NatDigits(n) == IF n < 10 THEN <<Digits[n + 1]>> ELSE NatDigits(n \div 10) \o <<Digits[(n % 10) + 1]>>

IntDigits(n) == IF n < 0 THEN <<"-">> \o NatDigits(-n) ELSE NatDigits(n)

RECURSIVE StripLeft(_)
StripLeft(chars) ==
    IF chars # <<>> /\ chars[1] = " " THEN StripLeft(Tail(chars)) ELSE chars

RECURSIVE StripRight(_)
StripRight(chars) ==
    IF chars # <<>> /\ chars[Len(chars)] = " "
    THEN StripRight(SubSeq(chars, 1, Len(chars) - 1))
    ELSE chars

\* str.strip()
Strip(chars) == StripRight(StripLeft(chars))

\* str(x) for the values whose text the code inspects; a text laid out as a
\* date/time is its own text
py_str(x) ==
    CASE x.t = "None" -> <<"N","o","n","e">>
      [] IsText(x) -> x.s
      [] x.t = "int" /\ x.k = "fin" -> IntDigits(x.v)
      [] x.t = "int" /\ x.k = "huge" -> [i \in 1..401 |-> IF i = 1 THEN "1" ELSE "0"]
      [] x.t = "float" /\ x.k = "fin" ->
            (IF x.v < 0 THEN <<"-">> ELSE <<>>)
            \o NatDigits((IF x.v < 0 THEN -x.v ELSE x.v) \div 10)
            \o <<".">> \o <<Digits[((IF x.v < 0 THEN -x.v ELSE x.v) % 10) + 1]>>
      [] x.t = "float" /\ x.k = "inf" -> IF x.v < 0 THEN <<"-","i","n","f">> ELSE <<"i","n","f">>
      [] x.t = "float" /\ x.k = "nan" -> <<"n","a","n">>
      [] OTHER -> <<"?">>

-----------------------------------------------------------------------------
(* float() and int() *)

\* the unsigned decimal part of a float literal: digits, digits.digits,
\* digits. or .digits; digits after the first decimal lie below the
\* resolution (tenths) of the model's floats
ParseParts(ip, fp) ==
    IF /\ AllDigits(ip) /\ AllDigits(fp) /\ (ip # <<>> \/ fp # <<>>)
    THEN Ok(PyFloat(10 * DigitsValue(ip) + (IF fp = <<>> THEN 0 ELSE DigitVal(fp[1]))))
    ELSE Raise("ValueError")

SplitAt(chars, dot) ==
    ParseParts(IF dot = 0 THEN chars ELSE SubSeq(chars, 1, dot - 1),
               IF dot = 0 THEN <<>> ELSE SubSeq(chars, dot + 1, Len(chars)))

ParseUnsigned(chars) == SplitAt(chars, IndexIn(chars, "."))

\* float(text): surrounding blanks ignored, optional sign, then inf / infinity
\* / nan in any case or a decimal literal
Negated(u) == IF u.exc # "none" THEN u ELSE Ok(PyFloat(-u.val.v))

ParseBody(neg, body, low) ==
    IF low \in {<<"i","n","f">>, <<"i","n","f","i","n","i","t","y">>}
    THEN Ok(IF neg THEN PyNegInf ELSE PyInf)
    ELSE IF low = <<"n","a","n">> THEN Ok(PyNaN)
    ELSE IF neg THEN Negated(ParseUnsigned(body)) ELSE ParseUnsigned(body)

ParseSigned(s, signed) ==
    ParseBody(signed /\ s[1] = "-",
              IF signed THEN Tail(s) ELSE s,
              Lower(IF signed THEN Tail(s) ELSE s))

ParseStripped(s) == ParseSigned(s, s # <<>> /\ s[1] \in {"-", "+"})

ParseFloatText(chars) == ParseStripped(Strip(chars))

\* float(x)
py_float(x) ==
    CASE x.t = "None" -> Raise("TypeError")
      [] IsText(x) -> ParseFloatText(x.s)
      [] IsTimeText(x) -> Raise("ValueError")
      [] x.t = "int" /\ x.k = "fin" -> Ok(PyFloat(10 * x.v))
      [] x.t = "int" /\ x.k = "huge" -> Raise("OverflowError")
      [] x.t = "float" -> Ok(x)
      [] OTHER -> Raise("TypeError")

\* int(f) for a float f: truncation toward zero
py_int(f) ==
    CASE f.k = "inf" -> Raise("OverflowError")
      [] f.k = "nan" -> Raise("ValueError")
      [] OTHER -> Ok(PyInt(IF f.v < 0 THEN -((-f.v) \div 10) ELSE f.v \div 10))

-----------------------------------------------------------------------------
(* Dates and times.  A text laid out as a date/time names its layout, the  *)
(* wall-clock reading `at` it spells (minutes since the model's epoch;     *)
(* minutes since midnight for a bare time of day) and, for a layout that   *)
(* carries one, the UTC offset `off` in minutes.                           *)
(*   iso_T_sec      2024-10-05T14:30:00     iso_sp_sec  2024-10-05 14:30:00 *)
(*   iso_T_min      2024-10-05T14:30        iso_date    2024-10-05          *)
(*   iso_T_sec_off  2024-10-05T14:30:00+02:00                               *)
(*   iso_T_sec_Z    2024-10-05T14:30:00Z                                    *)
(*   us_ampm        10/05/24 02:30 PM       us_ampm_sec 10/05/24 02:30:00 PM *)
(*   hm             14:30                   hms         14:30:00            *)

TimeText(layout, at, off) == [t |-> "str", layout |-> layout, at |-> at, off |-> off]

\* a datetime object: wall-clock reading, and its UTC offset when aware
DateTime(at, aware, off) == [at |-> at, aware |-> aware, off |-> off]

\* datetime.isoformat()
isoformat(dt) ==
    IF dt.aware THEN TimeText("iso_T_sec_off", dt.at, dt.off)
    ELSE TimeText("iso_T_sec", dt.at, 0)

\* str(x).strip().replace("\xa0", " ") keeps the layout of a date/time text;
\* x.replace(" ", "T") turns the blank-separated ISO layout into the T one
\* and breaks the blank-separated US layouts
ReplaceBlankByT(x) ==
    IF ~IsTimeText(x) THEN x
    ELSE IF x.layout = "iso_sp_sec" THEN TimeText("iso_T_sec", x.at, x.off)
    ELSE IF x.layout \in {"us_ampm", "us_ampm_sec"} THEN TimeText("broken", x.at, x.off)
    ELSE x

\* datetime.strptime(x, fmt): the layout each format accepts
strptime(x, fmt) ==
    IF ~IsTimeText(x) THEN Raise("ValueError")
    ELSE CASE fmt = "%m/%d/%y %I:%M %p" /\ x.layout = "us_ampm" -> Ok(DateTime(x.at, FALSE, 0))
           [] fmt = "%m/%d/%y %I:%M:%S %p" /\ x.layout = "us_ampm_sec" -> Ok(DateTime(x.at, FALSE, 0))
           [] fmt = "%Y-%m-%dT%H:%M:%S" /\ x.layout = "iso_T_sec" -> Ok(DateTime(x.at, FALSE, 0))
           [] fmt = "%Y-%m-%dT%H:%M" /\ x.layout = "iso_T_min" -> Ok(DateTime(x.at, FALSE, 0))
           [] fmt = "%Y-%m-%d" /\ x.layout = "iso_date" -> Ok(DateTime(x.at, FALSE, 0))
           [] OTHER -> Raise("ValueError")

\* datetime.fromisoformat(x), x a str
fromisoformat(x) ==
    IF ~IsTimeText(x) THEN Raise("ValueError")
    ELSE CASE x.layout \in {"iso_T_sec", "iso_sp_sec", "iso_T_min", "iso_date"} ->
                Ok(DateTime(x.at, FALSE, 0))
           [] x.layout = "iso_T_sec_off" -> Ok(DateTime(x.at, TRUE, x.off))
           [] OTHER -> Raise("ValueError")

\* x.replace('Z', '+00:00')
ReplaceZ(x) ==
    IF IsTimeText(x) /\ x.layout = "iso_T_sec_Z" THEN TimeText("iso_T_sec_off", x.at, 0) ELSE x

\* str(x) where the code converts a timestamp of any type to text
TextOf(x) == IF x.t = "str" THEN x ELSE PyStr(py_str(x))

-----------------------------------------------------------------------------
(* DataHarmonizer *)

\* d.get(key) on a mapping modelled as a function over its keys
Get(d, key) == IF key \in DOMAIN d THEN d[key] ELSE PyNone

\* the exceptions _to_float, _to_int and _create_measurement catch
CaughtByCoercion == {"ValueError", "TypeError"}

\* try: return r / except (ValueError, TypeError): return None
Coerced(r) == IF r.exc \in CaughtByCoercion THEN Ok(PyNone) ELSE r

_to_float(value) ==
    IF IsNone(value) \/ value = PyStr(<<>>) THEN Ok(PyNone)
    ELSE Coerced(py_float(value))

\* int(r) for the outcome r of float(value)
IntOf(r) == IF r.exc = "none" THEN py_int(r.val) ELSE r

_to_int(value) ==
    IF IsNone(value) \/ value = PyStr(<<>>) THEN Ok(PyNone)
    ELSE Coerced(IntOf(py_float(value)))

\* the texts _create_measurement reads as "no value"
NullTexts == {<<"N","/","A">>, <<"N","U","L","L">>, <<"N","O","N","E">>}

\* {"value": converted_value, "unit": unit}
WithUnit(r, unit) == IF r.exc = "none" THEN Ok([value |-> r.val, unit |-> unit]) ELSE r

_create_measurement(value, unit) ==
    IF IsNone(value) \/ value = PyStr(<<>>) \/ (~IsTimeText(value) /\ Upper(py_str(value)) \in NullTexts)
    THEN Ok([value |-> PyNone, unit |-> unit])
    ELSE WithUnit(Coerced(py_float(value)), unit)

\* the first successful strptime over the formats, in their order
RECURSIVE FirstParse(_, _)
FirstParse(x, formats) ==
    IF formats = <<>> THEN Raise("ValueError")
    ELSE LET d == strptime(x, Head(formats))
         IN  IF d.exc = "none" THEN d ELSE FirstParse(x, Tail(formats))

\* the US layout without seconds only
am_pm_formats_short == <<"%m/%d/%y %I:%M %p">>

am_pm_formats == <<"%m/%d/%y %I:%M %p", "%m/%d/%y %I:%M:%S %p">>

formats == <<"%Y-%m-%dT%H:%M:%S", "%Y-%m-%dT%H:%M", "%Y-%m-%d">>

\* _parse_timestamp(timestamp, file_date); file_date is a date text
\* (layout iso_date) or None
_parse_timestamp(timestamp, file_date) ==
    IF IsNone(timestamp) THEN PyNone
    ELSE LET ts_str == TextOf(timestamp)
             us == FirstParse(ts_str, am_pm_formats)
             joined == IF IsTimeText(ts_str) /\ ts_str.layout \in {"hm", "hms"} /\ Truthy(file_date)
                       THEN TimeText(IF ts_str.layout = "hm" THEN "iso_T_min" ELSE "iso_T_sec",
                                     file_date.at + ts_str.at, 0)
                       ELSE ReplaceBlankByT(ts_str)
             std == FirstParse(joined, formats)
             iso == fromisoformat(joined)
         IN  IF us.exc = "none" THEN isoformat(us.val)
             ELSE IF std.exc = "none" THEN isoformat(std.val)
             ELSE IF iso.exc = "none" THEN isoformat(iso.val)
             ELSE PyNone

Chars_infoclimat == <<"i","n","f","o","c","l","i","m","a","t","/">>

Chars_wunderground == <<"w","u","n","d","e","r","g","r","o","u","n","d","/">>

NET_INFOCLIMAT == PyStr(<<"I","n","f","o","C","l","i","m","a","t">>)

NET_WUNDERGROUND == PyStr(<<"W","e","a","t","h","e","r","U","n","d","e","r","g","r","o","u","n","d">>)

TYPE_UNKNOWN == PyStr(<<"u","n","k","n","o","w","n">>)

TYPE_AMATEUR == PyStr(<<"a","m","a","t","e","u","r">>)

\* the measurements literal of harmonize_infoclimat: canonical name, raw key, unit
InfoclimatFields ==
    << <<"temperature", "temperature", "°C">>,
       <<"humidity", "humidite", "%">>,
       <<"pressure", "pression", "hPa">>,
       <<"dewpoint", "point_de_rosee", "°C">>,
       <<"wind_speed", "vent_moyen", "km/h">>,
       <<"wind_gust", "vent_rafales", "km/h">>,
       <<"wind_direction", "vent_direction", "degrees">>,
       <<"precipitation_1h", "pluie_1h", "mm">>,
       <<"precipitation_3h", "pluie_3h", "mm">>,
       <<"visibility", "visibilite", "m">>,
       <<"cloud_cover", "nebulosite", "octas">>,
       <<"snow_depth", "neige_au_sol", "cm">>,
       <<"weather_code", "temps_omm", "omm_code">> >>

\* the measurements literal of harmonize_wunderground; wind_direction is
\* stored as the raw value, without _create_measurement (unit "" marks it)
WundergroundFields ==
    << <<"temperature", "temperature", "°C">>,
       <<"humidity", "humidity", "%">>,
       <<"pressure", "pressure", "hPa">>,
       <<"dewpoint", "dewpoint", "°C">>,
       <<"wind_speed", "wind_speed", "km/h">>,
       <<"wind_gust", "wind_gust", "km/h">>,
       <<"wind_direction", "wind_direction", "">>,
       <<"precipitation_rate", "precip_rate", "mm/h">>,
       <<"precipitation_accumulated", "precip_accum", "mm">>,
       <<"uv_index", "uv_index", "index">>,
       <<"solar_radiation", "solar_radiation", "W/m²">> >>

\* one entry of the measurements literal: [name, m, exc]
NamedEntry(name, c) == [name |-> name, m |-> c.val, exc |-> c.exc]

MeasurementEntry(raw, field) ==
    IF field[3] = ""
    THEN NamedEntry(field[1], Ok(Get(raw, field[2])))
    ELSE NamedEntry(field[1], _create_measurement(Get(raw, field[2]), field[3]))

\* the measurements literal evaluated on a raw record
Entries(raw, fields) == [i \in 1..Len(fields) |-> MeasurementEntry(raw, fields[i])]

FirstException(seq) ==
    IF \E i \in 1..Len(seq) : seq[i] # "none"
    THEN seq[CHOOSE i \in 1..Len(seq) : seq[i] # "none" /\ \A j \in 1..(i - 1) : seq[j] = "none"]
    ELSE "none"

\* location_geo = {"type": "Point", "coordinates": [lon, lat]}
\*                if (lat is not None and lon is not None) else None
location_geo_swapped(lat, lon) ==
    IF ~IsNone(lat) /\ ~IsNone(lon)
    THEN [type |-> "Point", coordinates |-> <<lat, lon>>]
    ELSE PyNone

location_geo(lat, lon) ==
    IF ~IsNone(lat) /\ ~IsNone(lon)
    THEN [type |-> "Point", coordinates |-> <<lon, lat>>]
    ELSE PyNone

\* the dict literal the two entry points build from what they computed
BuildDocument(rec, network, type, timestamp, lat, lon, elev, entries, prefix, extra, clock, exc) ==
    IF exc # "none" THEN Raise(exc)
    ELSE Ok([station |-> [id |-> rec.station_id, name |-> rec.station_name,
                          network |-> network, type |-> type,
                          location |-> [latitude |-> lat.val, longitude |-> lon.val,
                                        elevation |-> elev.val, city |-> rec.city,
                                        country |-> rec.country, region |-> rec.region],
                          location_geo |-> location_geo(lat.val, lon.val),
                          hardware |-> extra[1], software |-> extra[2]],
             timestamp |-> timestamp,
             measurements |-> [i \in 1..Len(entries) |-> [name |-> entries[i].name, m |-> entries[i].m]],
             data_quality |-> [completeness_score |-> PyNone, missing_fields |-> <<>>,
                               validation_passed |-> PyNone, anomalies_detected |-> PyBool(FALSE)],
             metadata |-> [source_file |-> PyStr(prefix \o py_str(rec.station_id)),
                           ingestion_timestamp |-> TimeText("iso_T_sec", clock, 0),
                           pipeline_version |-> PyStr(<<"1",".","0",".","0">>)]])

\* the first exception the evaluation of the literal meets
Escaping(lat, lon, elev, entries) ==
    FirstException(<<lat.exc, lon.exc, elev.exc>> \o [i \in 1..Len(entries) |-> entries[i].exc])

Harmonized_from(rec, network, type, timestamp, lat, lon, elev, entries, prefix, extra, clock) ==
    BuildDocument(rec, network, type, timestamp, lat, lon, elev, entries, prefix, extra, clock,
                  Escaping(lat, lon, elev, entries))

harmonize_infoclimat(rec, clock) ==
    Harmonized_from(rec, NET_INFOCLIMAT,
                    IF "station_type" \in DOMAIN rec THEN rec.station_type ELSE TYPE_UNKNOWN,
                    rec.timestamp,
                    _to_float(rec.latitude), _to_float(rec.longitude), _to_int(rec.elevation),
                    Entries(rec.measurements, InfoclimatFields),
                    Chars_infoclimat, <<PyNone, PyNone>>, clock)

harmonize_wunderground(rec, clock) ==
    Harmonized_from(rec, NET_WUNDERGROUND, TYPE_AMATEUR,
                    _parse_timestamp(rec.timestamp, PyNone),
                    _to_float(rec.latitude), _to_float(rec.longitude), _to_int(rec.elevation),
                    Entries(rec.measurements, WundergroundFields),
                    Chars_wunderground, <<Get(rec, "hardware"), Get(rec, "software")>>, clock)

-----------------------------------------------------------------------------
(* The inputs: raw records as the extractors build them *)

\* how many fields of an input differ from a sample input at once
MaxVaried == 1

\* how far past each end of a range the probing values go
Margin == 1

MinutesPerDay == 24 * 60

\* the reading of the clock during the run: 2024-10-06T00:00 UTC, in minutes
\* since 2024-01-01T00:00
Clock == 279 * MinutesPerDay

\* raw scalars: every way a value reaches the coercions
RawScalars ==
    { PyNone, PyStr(<<>>), PyStr(<<"N","/","A">>), PyStr(<<"n","/","a">>), PyStr(<<"n","u","l","l">>), PyStr(<<"N","o","n","e">>), PyStr(<<"N","O","N","E">>), PyStr(<<"a","b","c">>), PyStr(<<"7",".","6">>), PyStr(<<"7","5">>), PyStr(<<"-","3">>), PyStr(<<" ","5"," ">>),
      PyStr(<<"i","n","f">>), PyStr(<<"n","a","n">>), PyInt(0), PyInt(20), PyHugeInt, PyFloat(150), PyFloat(-5), PyNaN, PyInf }

\* the values a measurement slot other than the probed one takes
RawBrief == { PyNone, PyStr(<<"a","b","c">>), PyFloat(150) }

\* raw timestamps: no text, texts that are no date, and every layout, at
\* readings around the clock and around one year before it
RawTimestamps ==
    { PyNone, PyStr(<<>>), PyStr(<<"a","b","c">>), PyInt(5),
      TimeText("iso_sp_sec", Clock - MinutesPerDay, 0),
      TimeText("iso_T_min", Clock - 60, 0),
      TimeText("iso_date", Clock - 366 * MinutesPerDay, 0),
      TimeText("iso_T_sec_off", Clock + 60, 120),
      TimeText("iso_T_sec_off", Clock - 60, -120),
      TimeText("iso_T_sec_Z", Clock - 60, 0),
      TimeText("us_ampm", Clock - 90, 0),
      TimeText("us_ampm_sec", Clock - 366 * MinutesPerDay, 0),
      TimeText("hm", 14 * 60 + 30, 0),
      TimeText("hms", 14, 0) }
    \cup { TimeText("iso_T_sec", Clock + k, 0) : k \in 0..Margin }
    \cup { TimeText("iso_T_sec", Clock - 365 * MinutesPerDay - k, 0) : k \in 0..Margin }

\* the sample record of tests/test_harmonizer.py (synoptic feed)
infoclimat_sample ==
    [source |-> "infoclimat", station_id |-> PyStr(<<"0","7","0","1","5">>), station_name |-> PyStr(<<"L","i","l","l","e">>),
     station_type |-> PyStr(<<"s","y","n","o","p">>), latitude |-> PyFloat(506), longitude |-> PyFloat(31),
     elevation |-> PyInt(47), city |-> PyStr(<<"L","i","l","l","e">>), country |-> PyStr(<<"F","r","a","n","c","e">>), region |-> PyStr(<<"H","d","F">>),
     timestamp |-> TimeText("iso_sp_sec", Clock - MinutesPerDay, 0),
     measurements |-> [temperature |-> PyStr(<<"7",".","6">>), pression |-> PyStr(<<"1","0","2","0",".","7">>), humidite |-> PyStr(<<"8","9">>),
                       point_de_rosee |-> PyStr(<<"5",".","9">>), visibilite |-> PyStr(<<"6","0","0","0">>), vent_moyen |-> PyStr(<<"3",".","6">>),
                       vent_rafales |-> PyStr(<<"7",".","2">>), vent_direction |-> PyStr(<<"9","0">>), pluie_1h |-> PyStr(<<"0">>),
                       pluie_3h |-> PyStr(<<"0">>), neige_au_sol |-> PyNone, nebulosite |-> PyStr(<<>>),
                       temps_omm |-> PyNone]]

\* the record _parse_infoclimat_data builds for a station it has no metadata
\* for, with a measurement that reports nothing
infoclimat_unknown ==
    [source |-> "infoclimat", station_id |-> PyStr(<<"0","0","0","9","9">>), station_name |-> PyStr(<<"U","n","k","n","o","w","n">>),
     station_type |-> PyStr(<<"u","n","k","n","o","w","n">>), latitude |-> PyNone, longitude |-> PyNone,
     elevation |-> PyNone, city |-> PyNone, country |-> PyNone, region |-> PyNone,
     timestamp |-> PyNone,
     measurements |-> [temperature |-> PyNone, pression |-> PyNone, humidite |-> PyNone,
                       point_de_rosee |-> PyNone, visibilite |-> PyNone, vent_moyen |-> PyNone,
                       vent_rafales |-> PyNone, vent_direction |-> PyNone, pluie_1h |-> PyNone,
                       pluie_3h |-> PyNone, neige_au_sol |-> PyNone, nebulosite |-> PyNone,
                       temps_omm |-> PyNone]]

\* the sample record of tests/test_harmonizer.py (crowd-sourced feed)
wunderground_sample ==
    [source |-> "wunderground", station_id |-> PyStr(<<"I","I","C","H","T","E","1","9">>), station_name |-> PyStr(<<"W","e","e","r","s","t","a","t","i","o","n","B","S">>),
     latitude |-> PyFloat(511), longitude |-> PyFloat(30), elevation |-> PyInt(15),
     city |-> PyStr(<<"I","c","h","t","e","g","e","m">>), country |-> PyStr(<<"B","e","l","g","i","u","m">>), region |-> PyStr(<<"W","V","l">>),
     hardware |-> PyStr(<<"o","t","h","e","r">>), software |-> PyStr(<<"E","a","s","y","W","e","a","t","h","e","r">>),
     timestamp |-> TimeText("us_ampm", Clock - 90, 0),
     measurements |-> [temperature |-> PyFloat(570), dewpoint |-> PyFloat(528),
                       humidity |-> PyFloat(860), wind_speed |-> PyFloat(103),
                       wind_gust |-> PyFloat(128), wind_direction |-> PyStr(<<"W","e","s","t">>),
                       pressure |-> PyFloat(295), precip_rate |-> PyFloat(0),
                       precip_accum |-> PyFloat(0), uv_index |-> PyFloat(0),
                       solar_radiation |-> PyFloat(0)]]

\* a crowd-sourced line whose columns are all missing
wunderground_blank ==
    [source |-> "wunderground", station_id |-> PyStr(<<"I","I","C","H","T","E","1","9">>), station_name |-> PyStr(<<"W","e","e","r","s","t","a","t","i","o","n","B","S">>),
     latitude |-> PyFloat(511), longitude |-> PyFloat(30), elevation |-> PyInt(15),
     city |-> PyStr(<<"I","c","h","t","e","g","e","m">>), country |-> PyStr(<<"B","e","l","g","i","u","m">>), region |-> PyStr(<<"W","V","l">>),
     hardware |-> PyStr(<<"o","t","h","e","r">>), software |-> PyStr(<<"E","a","s","y","W","e","a","t","h","e","r">>),
     timestamp |-> PyNone,
     measurements |-> [temperature |-> PyNone, dewpoint |-> PyNone,
                       humidity |-> PyNone, wind_speed |-> PyNone,
                       wind_gust |-> PyNone, wind_direction |-> PyNone,
                       pressure |-> PyNone, precip_rate |-> PyNone,
                       precip_accum |-> PyNone, uv_index |-> PyNone,
                       solar_radiation |-> PyNone]]

SampleRecords == {infoclimat_sample, infoclimat_unknown, wunderground_sample, wunderground_blank}

\* the fields of a raw record that vary, and the values each takes
RawSlots(rec) ==
    {<<"top", f>> : f \in {"station_id", "station_name", "latitude", "longitude", "elevation", "timestamp"}}
    \cup {<<"measurements", f>> : f \in DOMAIN rec.measurements}

RawAlternatives(slot) ==
    CASE slot[1] = "measurements" -> IF slot[2] = "temperature" THEN RawScalars ELSE RawBrief
      [] slot[2] = "timestamp" -> RawTimestamps
      [] slot[2] \in {"station_id", "station_name"} -> {PyNone, PyStr(<<>>)}
      [] slot[2] \in {"latitude", "longitude"} ->
            {PyNone, PyStr(<<>>), PyStr(<<"a","b","c">>), PyStr(<<"5","0",".","5">>), PyFloat(1801), PyHugeInt, PyNaN}
      [] slot[2] = "elevation" ->
            {PyNone, PyStr(<<>>), PyStr(<<"a","b","c">>), PyStr(<<"i","n","f">>), PyStr(<<"-","5","0","0",".","9">>), PyInf, PyNaN, PyHugeInt, PyInt(9001)}

SetRawSlot(rec, slot, v) ==
    IF slot[1] = "measurements" THEN [rec EXCEPT !.measurements[slot[2]] = v]
    ELSE [rec EXCEPT ![slot[2]] = v]

\* a choice of one field and of the value it takes, or of no change
NoChange == <<"none", "none">>

RawChoices(rec) ==
    {<<NoChange, PyNone>>}
    \cup UNION { {<<slot, v>> : v \in RawAlternatives(slot)} : slot \in RawSlots(rec) }

RECURSIVE ApplyRawChoices(_, _, _)
ApplyRawChoices(rec, choices, n) ==
    IF n = 0 THEN rec
    ELSE LET r == ApplyRawChoices(rec, choices, n - 1)
         IN  IF choices[n][1] = NoChange THEN r ELSE SetRawSlot(r, choices[n][1], choices[n][2])

-----------------------------------------------------------------------------
(* Comparison of Python numbers (int and float, with the IEEE specials) *)

\* place of a number on the extended line: -2 for -inf, -1 for an int below
\* every double, 0 for a finite double, 1 and 2 likewise at the other end
NumClass(x) ==
    CASE x.k = "fin" -> 0
      [] x.k = "huge" -> x.v
      [] x.k = "inf" -> 2 * x.v
      [] OTHER -> 0

NumTenths(x) == IF x.t = "int" THEN 10 * x.v ELSE x.v

\* a <= b
NumLe(a, b) ==
    /\ a.k # "nan" /\ b.k # "nan"
    /\ \/ NumClass(a) < NumClass(b)
       \/ NumClass(a) = NumClass(b) /\ (NumClass(a) # 0 \/ NumTenths(a) <= NumTenths(b))

\* a < b
NumLt(a, b) == a.k # "nan" /\ b.k # "nan" /\ ~NumLe(b, a)

-----------------------------------------------------------------------------
(* DataValidator *)

VALID_RANGES ==
    [temperature |-> <<-50, 60>>, humidity |-> <<0, 100>>, pressure |-> <<900, 1100>>,
     dewpoint |-> <<-60, 50>>, wind_speed |-> <<0, 250>>, wind_gust |-> <<0, 400>>,
     wind_direction |-> <<0, 360>>, precipitation_1h |-> <<0, 300>>,
     precipitation_3h |-> <<0, 500>>, precipitation_rate |-> <<0, 500>>,
     visibility |-> <<0, 100000>>, cloud_cover |-> <<0, 8>>, snow_depth |-> <<0, 1000>>,
     uv_index |-> <<0, 15>>, solar_radiation |-> <<0, 1500>>]

\* isinstance(measurement_obj, dict)
IsDict(m) == "unit" \in DOMAIN m

\* measurements.get(name, {}) on the ordered mapping of a document
HasEntry(measurements, name) == \E i \in 1..Len(measurements) : measurements[i].name = name

EntryOf(measurements, name) ==
    measurements[CHOOSE i \in 1..Len(measurements) : measurements[i].name = name].m

\* one entry of the list of required-field errors
Missing(field) == <<[msg |-> "Champ obligatoire manquant", field |-> field]>>

_validate_required_fields_falsy(rec) ==
    LET station == rec.station
        location == station.location
    IN  (IF ~Truthy(station.id) THEN Missing("station.id") ELSE <<>>)
        \o (IF ~Truthy(station.name) THEN Missing("station.name") ELSE <<>>)
        \o (IF ~Truthy(station.network) THEN Missing("station.network") ELSE <<>>)
        \o (IF ~Truthy(location.latitude) THEN Missing("station.location.latitude") ELSE <<>>)
        \o (IF ~Truthy(location.longitude) THEN Missing("station.location.longitude") ELSE <<>>)
        \o (IF ~Truthy(rec.timestamp) THEN Missing("timestamp") ELSE <<>>)

_validate_required_fields(rec) ==
    LET station == rec.station
        location == station.location
    IN  (IF ~Truthy(station.id) THEN Missing("station.id") ELSE <<>>)
        \o (IF ~Truthy(station.name) THEN Missing("station.name") ELSE <<>>)
        \o (IF ~Truthy(station.network) THEN Missing("station.network") ELSE <<>>)
        \o (IF IsNone(location.latitude) THEN Missing("station.location.latitude") ELSE <<>>)
        \o (IF IsNone(location.longitude) THEN Missing("station.location.longitude") ELSE <<>>)
        \o (IF ~Truthy(rec.timestamp) THEN Missing("timestamp") ELSE <<>>)

_validate_timestamp_inclusive(timestamp, clock) ==
    IF ~Truthy(timestamp) THEN [errors |-> <<>>, warnings |-> <<>>]
    ELSE LET p == fromisoformat(ReplaceZ(TextOf(timestamp)))
             instant == p.val.at - p.val.off
             one_year_ago == clock - 365 * MinutesPerDay
         IN  IF p.exc # "none"
             THEN [errors |-> <<[msg |-> "Timestamp invalide", value |-> timestamp, exc |-> p.exc]>>,
                   warnings |-> <<>>]
             ELSE [errors |-> IF instant >= clock
                              THEN <<[msg |-> "Timestamp dans le futur", value |-> timestamp]>>
                              ELSE <<>>,
                   warnings |-> IF instant < one_year_ago
                                THEN <<[msg |-> "Timestamp ancien (> 1 an)", value |-> timestamp]>>
                                ELSE <<>>]

\* (errors, warnings); every exception of the parse is caught and reported
_validate_timestamp(timestamp, clock) ==
    IF ~Truthy(timestamp) THEN [errors |-> <<>>, warnings |-> <<>>]
    ELSE LET p == fromisoformat(ReplaceZ(TextOf(timestamp)))
             instant == p.val.at - p.val.off
             one_year_ago == clock - 365 * MinutesPerDay
         IN  IF p.exc # "none"
             THEN [errors |-> <<[msg |-> "Timestamp invalide", value |-> timestamp, exc |-> p.exc]>>,
                   warnings |-> <<>>]
             ELSE [errors |-> IF instant > clock
                              THEN <<[msg |-> "Timestamp dans le futur", value |-> timestamp]>>
                              ELSE <<>>,
                   warnings |-> IF instant < one_year_ago
                                THEN <<[msg |-> "Timestamp ancien (> 1 an)", value |-> timestamp]>>
                                ELSE <<>>]

Between_exclusive(lo, x, hi) ==
    IF ~IsNumber(x) THEN Raise("TypeError")
    ELSE [exc |-> "none", val |-> NumLt(PyInt(lo), x) /\ NumLt(x, PyInt(hi))]

\* lo <= x <= hi as Python evaluates it: TypeError unless x is a number
Between(lo, x, hi) ==
    IF ~IsNumber(x) THEN Raise("TypeError")
    ELSE [exc |-> "none", val |-> NumLe(PyInt(lo), x) /\ NumLe(x, PyInt(hi))]

_validate_location(location) ==
    LET latitude == location.latitude
        longitude == location.longitude
        elevation == location.elevation
        a == IF IsNone(latitude) THEN [exc |-> "none", val |-> TRUE] ELSE Between(-90, latitude, 90)
        o == IF IsNone(longitude) THEN [exc |-> "none", val |-> TRUE] ELSE Between(-180, longitude, 180)
        e == IF IsNone(elevation) THEN [exc |-> "none", val |-> TRUE] ELSE Between(-500, elevation, 9000)
    IN  [exc |-> FirstException(<<a.exc, o.exc, e.exc>>),
         errors |->
            (IF a.exc = "none" /\ ~a.val THEN <<[msg |-> "Latitude hors limites", value |-> latitude]>> ELSE <<>>)
            \o (IF o.exc = "none" /\ ~o.val THEN <<[msg |-> "Longitude hors limites", value |-> longitude]>> ELSE <<>>)
            \o (IF e.exc = "none" /\ ~e.val THEN <<[msg |-> "Élévation improbable", value |-> elevation]>> ELSE <<>>)]

\* the range check of one entry of the loop: [exc, warnings]
RangeCheck_exclusive(entry) ==
    IF ~IsDict(entry.m) \/ IsNone(entry.m.value) \/ entry.name \notin DOMAIN VALID_RANGES
    THEN [exc |-> "none", warnings |-> <<>>]
    ELSE LET min_val == VALID_RANGES[entry.name][1]
             max_val == VALID_RANGES[entry.name][2]
             b == Between(min_val + 1, entry.m.value, max_val - 1)
         IN  [exc |-> b.exc,
              warnings |-> IF b.exc = "none" /\ ~b.val
                           THEN <<[msg |-> "hors plage normale", field |-> entry.name,
                                   value |-> entry.m.value, min |-> min_val, max |-> max_val]>>
                           ELSE <<>>]

RangeCheck(entry) ==
    IF ~IsDict(entry.m) \/ IsNone(entry.m.value) \/ entry.name \notin DOMAIN VALID_RANGES
    THEN [exc |-> "none", warnings |-> <<>>]
    ELSE LET min_val == VALID_RANGES[entry.name][1]
             max_val == VALID_RANGES[entry.name][2]
             b == Between(min_val, entry.m.value, max_val)
         IN  [exc |-> b.exc,
              warnings |-> IF b.exc = "none" /\ ~b.val
                           THEN <<[msg |-> "hors plage normale", field |-> entry.name,
                                   value |-> entry.m.value, min |-> min_val, max |-> max_val]>>
                           ELSE <<>>]

\* the sequences of a sequence joined in order, by halves
RECURSIVE Concat(_)
Concat(seqs) ==
    IF seqs = <<>> THEN <<>>
    ELSE IF Len(seqs) = 1 THEN seqs[1]
    ELSE Concat(SubSeq(seqs, 1, Len(seqs) \div 2))
         \o Concat(SubSeq(seqs, Len(seqs) \div 2 + 1, Len(seqs)))

\* measurements.get(name, {}).get("value"): None for a missing entry,
\* AttributeError for an entry that is not a mapping
ValueOf(measurements, name) ==
    IF ~HasEntry(measurements, name) THEN Ok(PyNone)
    ELSE IF ~IsDict(EntryOf(measurements, name)) THEN Raise("AttributeError")
    ELSE Ok(EntryOf(measurements, name).value)

Greater_or_equal(a, b) ==
    IF ~IsNumber(a) \/ ~IsNumber(b) THEN Raise("TypeError")
    ELSE [exc |-> "none", val |-> NumLe(b, a)]

\* a > b as Python evaluates it
Greater(a, b) ==
    IF ~IsNumber(a) \/ ~IsNumber(b) THEN Raise("TypeError")
    ELSE [exc |-> "none", val |-> NumLt(b, a)]

_validate_measurements(measurements) ==
    LET checks == [i \in 1..Len(measurements) |-> RangeCheck(measurements[i])]
        temp == ValueOf(measurements, "temperature")
        dewpoint == ValueOf(measurements, "dewpoint")
        dew == IF temp.exc = "none" /\ dewpoint.exc = "none"
                  /\ ~IsNone(temp.val) /\ ~IsNone(dewpoint.val)
               THEN Greater(dewpoint.val, temp.val)
               ELSE [exc |-> "none", val |-> FALSE]
        wind_speed == ValueOf(measurements, "wind_speed")
        wind_gust == ValueOf(measurements, "wind_gust")
        gust == IF wind_speed.exc = "none" /\ wind_gust.exc = "none"
                   /\ ~IsNone(wind_speed.val) /\ ~IsNone(wind_gust.val)
                THEN Greater(wind_speed.val, wind_gust.val)
                ELSE [exc |-> "none", val |-> FALSE]
    IN  [exc |-> FirstException([i \in 1..Len(checks) |-> checks[i].exc]
                                \o <<temp.exc, dewpoint.exc, dew.exc,
                                     wind_speed.exc, wind_gust.exc, gust.exc>>),
         warnings |->
            Concat([i \in 1..Len(checks) |-> checks[i].warnings])
            \o (IF dew.exc = "none" /\ dew.val
                THEN <<[msg |-> "Point de rosée > température",
                        dewpoint |-> dewpoint.val, temp |-> temp.val]>>
                ELSE <<>>)
            \o (IF gust.exc = "none" /\ gust.val
                THEN <<[msg |-> "Rafales < vent moyen",
                        wind_gust |-> wind_gust.val, wind_speed |-> wind_speed.val]>>
                ELSE <<>>)]

\* round(p / q, digits) for 0 <= p, 0 < q, as a count of 10^-digits: the
\* nearest, a tie going to the even neighbour
RoundRatio(p, q, scale) ==
    LET floor == (p * scale) \div q
        rem == (p * scale) % q
    IN  IF 2 * rem > q \/ (2 * rem = q /\ floor % 2 = 1) THEN floor + 1 ELSE floor

\* a completeness score: a float held in thousandths
Score(thousandths) == [t |-> "float", k |-> "fin", milli |-> thousandths]

SelectDicts(measurements) == SelectSeq(measurements, LAMBDA e : IsDict(e.m))

_calculate_completeness(rec) ==
    LET dicts == SelectDicts(rec.measurements)
        total_fields == Len(dicts)
        filled_fields == Len(SelectSeq(dicts, LAMBDA e : ~IsNone(e.m.value)))
    IN  IF total_fields = 0 THEN Score(0)
        ELSE Score(RoundRatio(filled_fields, total_fields, 1000))

\* the names are added to the list the document already carries
_get_missing_fields_appending(rec) ==
    LET missing == SelectSeq(SelectDicts(rec.measurements), LAMBDA e : IsNone(e.m.value))
    IN  rec.data_quality.missing_fields \o [i \in 1..Len(missing) |-> missing[i].name]

_get_missing_fields(rec) ==
    LET missing == SelectSeq(SelectDicts(rec.measurements), LAMBDA e : IsNone(e.m.value))
    IN  [i \in 1..Len(missing) |-> missing[i].name]

\* the write-back of validate into record["data_quality"]
Annotate_unless_errors(rec, errors, warnings) ==
    IF errors # <<>> THEN rec
    ELSE [rec EXCEPT !.data_quality =
             [completeness_score |-> _calculate_completeness(rec),
              missing_fields |-> _get_missing_fields(rec),
              validation_passed |-> PyBool(Len(errors) = 0),
              anomalies_detected |-> PyBool(Len(warnings) > 0)]]

Annotate(rec, errors, warnings) ==
    [rec EXCEPT !.data_quality =
        [completeness_score |-> _calculate_completeness(rec),
         missing_fields |-> _get_missing_fields(rec),
         validation_passed |-> PyBool(Len(errors) = 0),
         anomalies_detected |-> PyBool(Len(warnings) > 0)]]

\* the end of validate: in strict mode the warnings become errors, then
\* is_valid is computed and the mapping returned
Verdict_before_promotion(errors, warnings, strict) ==
    LET promoted == strict /\ warnings # <<>>
    IN  [is_valid |-> Len(errors) = 0,
         errors |-> IF promoted THEN errors \o warnings ELSE errors,
         warnings |-> IF promoted THEN <<>> ELSE warnings]

Verdict(errors, warnings, strict) ==
    LET promoted == strict /\ warnings # <<>>
        final_errors == IF promoted THEN errors \o warnings ELSE errors
        final_warnings == IF promoted THEN <<>> ELSE warnings
    IN  [is_valid |-> Len(final_errors) = 0,
         errors |-> final_errors,
         warnings |-> final_warnings]

\* validate(record): [exc, val |-> the returned mapping, record |-> the
\* document as the call leaves it]
validate_lenient(rec, strict, clock) ==
    LET required_errors == _validate_required_fields(rec)
        ts == _validate_timestamp(rec.timestamp, clock)
        loc == _validate_location(rec.station.location)
        meas == _validate_measurements(rec.measurements)
        errors == required_errors \o ts.errors \o loc.errors
        warnings == ts.warnings \o meas.warnings
        exc == FirstException(<<loc.exc, meas.exc>>)
    IN  IF exc # "none" THEN [exc |-> exc, val |-> PyNone, record |-> rec]
        ELSE [exc |-> "none",
              val |-> Verdict(errors, warnings, FALSE),
              record |-> Annotate(rec, errors, warnings)]

validate(rec, strict, clock) ==
    LET required_errors == _validate_required_fields(rec)
        ts == _validate_timestamp(rec.timestamp, clock)
        loc == _validate_location(rec.station.location)
        meas == _validate_measurements(rec.measurements)
        errors == required_errors \o ts.errors \o loc.errors
        warnings == ts.warnings \o meas.warnings
        exc == FirstException(<<loc.exc, meas.exc>>)
    IN  IF exc # "none" THEN [exc |-> exc, val |-> PyNone, record |-> rec]
        ELSE [exc |-> "none",
              val |-> Verdict(errors, warnings, strict),
              record |-> Annotate(rec, errors, warnings)]

-----------------------------------------------------------------------------
(* The inputs: unified documents handed to validate by a caller *)

Measurement(value, unit) == [value |-> value, unit |-> unit]

EmptyQuality ==
    [completeness_score |-> PyNone, missing_fields |-> <<>>,
     validation_passed |-> PyNone, anomalies_detected |-> PyNone]

EmptyMetadata == [source_file |-> PyNone, ingestion_timestamp |-> PyNone, pipeline_version |-> PyNone]

\* the valid_record fixture of tests/test_transformers.py
valid_record ==
    [station |-> [id |-> PyStr(<<"I","L","A","M","A","D","2","5">>), name |-> PyStr(<<"L","a"," ","M","a","d","e","l","e","i","n","e">>), network |-> NET_WUNDERGROUND,
                  type |-> PyNone,
                  location |-> [latitude |-> PyFloat(507), longitude |-> PyFloat(31),
                                elevation |-> PyInt(23), city |-> PyNone, country |-> PyNone,
                                region |-> PyNone],
                  location_geo |-> PyNone, hardware |-> PyNone, software |-> PyNone],
     timestamp |-> TimeText("iso_T_sec", Clock - MinutesPerDay, 0),
     measurements |-> << [name |-> "temperature", m |-> Measurement(PyFloat(185), "°C")],
                         [name |-> "humidity", m |-> Measurement(PyInt(72), "%")],
                         [name |-> "pressure", m |-> Measurement(PyFloat(10153), "hPa")] >>,
     data_quality |-> EmptyQuality,
     metadata |-> EmptyMetadata]

\* a document that reports no measurement at all
bare_record == [valid_record EXCEPT !.measurements = <<>>]

\* the document of test_validate_dewpoint_greater_than_temp, with the winds
\* of the gust scenario: dew point above temperature, gust below mean speed
dewpoint_record ==
    [valid_record EXCEPT !.measurements =
        << [name |-> "temperature", m |-> Measurement(PyFloat(150), "°C")],
           [name |-> "dewpoint", m |-> Measurement(PyFloat(200), "°C")],
           [name |-> "wind_speed", m |-> Measurement(PyInt(30), "km/h")],
           [name |-> "wind_gust", m |-> Measurement(PyInt(20), "km/h")] >>]

\* saturated air and a steady wind: dew point at temperature, gust at mean
\* speed
calm_record ==
    [valid_record EXCEPT !.measurements =
        << [name |-> "temperature", m |-> Measurement(PyFloat(150), "°C")],
           [name |-> "dewpoint", m |-> Measurement(PyInt(15), "°C")],
           [name |-> "wind_speed", m |-> Measurement(PyInt(30), "km/h")],
           [name |-> "wind_gust", m |-> Measurement(PyFloat(300), "km/h")] >>]

SampleDocuments == {valid_record, bare_record, dewpoint_record, calm_record}

\* the unit each canonical measurement name carries
CanonicalUnits ==
    [temperature |-> "°C", humidity |-> "%", pressure |-> "hPa", dewpoint |-> "°C",
     wind_speed |-> "km/h", wind_gust |-> "km/h", wind_direction |-> "degrees",
     precipitation_1h |-> "mm", precipitation_3h |-> "mm", precipitation_rate |-> "mm/h",
     precipitation_accumulated |-> "mm", visibility |-> "m", cloud_cover |-> "octas",
     snow_depth |-> "cm", weather_code |-> "omm_code", uv_index |-> "index",
     solar_radiation |-> "W/m²"]

\* the values a measurement of the given name takes: none, around both ends
\* of its range when it has one, not-a-number, and an ill-typed one (a text)
ValueAlternatives(name) ==
    {PyNone, PyNaN, PyStr(<<"a","b","c">>)}
    \cup (IF name \in DOMAIN VALID_RANGES
          THEN {PyInt(VALID_RANGES[name][1] - k) : k \in 0..Margin}
               \cup {PyInt(VALID_RANGES[name][2] + k) : k \in 0..Margin}
               \cup {PyFloat(10 * VALID_RANGES[name][1] - 1), PyFloat(10 * VALID_RANGES[name][2] + 1)}
          ELSE {PyFloat(990)})

\* the fields of a document that vary: station and timestamp fields, a
\* coordinate, the value of the entry of a name (the entry is added when the
\* document has none), an entry replaced by a bare scalar
DocSlots(d) ==
    {<<"station", f>> : f \in {"id", "name", "network"}}
    \cup {<<"location", f>> : f \in {"latitude", "longitude", "elevation"}}
    \cup {<<"timestamp", "timestamp">>}
    \cup {<<"value", name>> : name \in DOMAIN CanonicalUnits}
    \cup {<<"entry", d.measurements[i].name>> : i \in 1..Len(d.measurements)}

DocAlternatives(slot) ==
    CASE slot[1] = "station" -> {PyNone, PyStr(<<>>), PyInt(0)}
      [] slot[1] = "location" /\ slot[2] = "latitude" ->
            {PyNone, PyInt(0), PyFloat(0), PyFloat(901), PyFloat(-901), PyNaN, PyStr(<<"a","b","c">>)}
            \cup {PyInt(90 + k) : k \in 0..Margin} \cup {PyInt(-90 - k) : k \in 0..Margin}
      [] slot[1] = "location" /\ slot[2] = "longitude" ->
            {PyNone, PyInt(0), PyFloat(0), PyFloat(1801), PyFloat(-1801), PyNaN, PyStr(<<"a","b","c">>)}
            \cup {PyInt(180 + k) : k \in 0..Margin} \cup {PyInt(-180 - k) : k \in 0..Margin}
      [] slot[1] = "location" /\ slot[2] = "elevation" ->
            {PyNone, PyInt(0), PyStr(<<"a","b","c">>)}
            \cup {PyInt(9000 + k) : k \in 0..Margin} \cup {PyInt(-500 - k) : k \in 0..Margin}
      [] slot[1] = "timestamp" -> RawTimestamps
      [] slot[1] = "value" -> ValueAlternatives(slot[2])
      [] slot[1] = "entry" -> {PyNone, PyInt(400), PyStr(<<"W","e","s","t">>)}

IndexOfEntry(measurements, name) ==
    CHOOSE i \in 1..Len(measurements) : measurements[i].name = name

SetDocSlot(d, slot, v) ==
    CASE slot[1] = "station" -> [d EXCEPT !.station[slot[2]] = v]
      [] slot[1] = "location" -> [d EXCEPT !.station.location[slot[2]] = v]
      [] slot[1] = "timestamp" -> [d EXCEPT !.timestamp = v]
      [] slot[1] = "value" ->
            IF ~HasEntry(d.measurements, slot[2])
            THEN [d EXCEPT !.measurements =
                     Append(@, [name |-> slot[2], m |-> Measurement(v, CanonicalUnits[slot[2]])])]
            ELSE IF IsDict(EntryOf(d.measurements, slot[2]))
            THEN [d EXCEPT !.measurements[IndexOfEntry(d.measurements, slot[2])].m.value = v]
            ELSE d
      [] slot[1] = "entry" ->
            IF ~HasEntry(d.measurements, slot[2]) THEN d
            ELSE [d EXCEPT !.measurements[IndexOfEntry(d.measurements, slot[2])].m = v]

DocChoices(d) ==
    {<<NoChange, PyNone>>}
    \cup UNION { {<<slot, v>> : v \in DocAlternatives(slot)} : slot \in DocSlots(d) }

RECURSIVE ApplyDocChoices(_, _, _)
ApplyDocChoices(d, choices, n) ==
    IF n = 0 THEN d
    ELSE LET r == ApplyDocChoices(d, choices, n - 1)
         IN  IF choices[n][1] = NoChange THEN r ELSE SetDocSlot(r, choices[n][1], choices[n][2])

-----------------------------------------------------------------------------
(* QualityChecker *)
(* A dict the code fills in a loop is the sequence of its [key, val]       *)
(* entries in insertion order. Each analysis returns its value and the     *)
(* number of divisions it evaluated.                                       *)

\* stats.get(key, default)
StatsGet(s, key, default) == IF key \in DOMAIN s THEN s[key] ELSE default

\* floats the report rounds: to 4 decimals, to 2 decimals
Rate(tenthousandths) == [t |-> "float", k |-> "fin", e4 |-> tenthousandths]

Hours(hundredths) == [t |-> "float", k |-> "fin", centi |-> hundredths]

\* the keys a loop inserts into a dict, in the order of their first insertion
InsertionOrder(keys) ==
    LET first == SelectSeq([i \in 1..Len(keys) |-> i],
                           LAMBDA i : \A j \in 1..(i - 1) : keys[j] # keys[i])
    IN  [n \in 1..Len(first) |-> keys[first[n]]]

\* sum(scores) in thousandths, added up by halves
RECURSIVE SumMilli(_)
SumMilli(scores) ==
    IF scores = <<>> THEN 0
    ELSE IF Len(scores) = 1 THEN scores[1].milli
    ELSE SumMilli(SubSeq(scores, 1, Len(scores) \div 2))
         + SumMilli(SubSeq(scores, Len(scores) \div 2 + 1, Len(scores)))

\* the non-null completeness scores of the documents, in order
ScoresOf(docs) ==
    LET scored == SelectSeq(docs, LAMBDA r : ~IsNone(r.data_quality.completeness_score))
    IN  [i \in 1..Len(scored) |-> scored[i].data_quality.completeness_score]

\* the sums of two scores whose mean, a decimal tie, is a double that lies
\* above the tie: (0.769 + 0) / 2 and (0.769 + 1.0) / 2
TiesAbove == {<<769, 2>>, <<1769, 2>>}

\* round(sum(scores) / len(scores), 3) in thousandths: the nearest one; at a
\* decimal tie round() sees the double, which lies to one side of the tie
RoundMean(sum, n) ==
    LET floor == sum \div n
        rem == sum % n
    IN  IF 2 * rem > n THEN floor + 1
        ELSE IF 2 * rem < n THEN floor
        ELSE IF <<sum, n>> \in TiesAbove \/ floor % 2 = 1 THEN floor + 1
        ELSE floor

\* round(sum(scores) / len(scores) if scores else 0, 3)
AvgCompleteness(scores) ==
    IF scores = <<>> THEN PyInt(0)
    ELSE Score(RoundMean(SumMilli(scores), Len(scores)))

CountAnomalies(docs) ==
    Len(SelectSeq(docs, LAMBDA r : Truthy(r.data_quality.anomalies_detected)))

\* the "execution_info" section of both report layouts
ExecutionInfo(s, clock) ==
    [start_time |-> StatsGet(s, "start_time", PyNone),
     end_time |-> StatsGet(s, "end_time", PyNone),
     duration_seconds |-> StatsGet(s, "duration_seconds", PyNone),
     timestamp |-> isoformat(DateTime(clock, FALSE, 0))]

_empty_report(s, clock) ==
    [execution_info |-> ExecutionInfo(s, clock),
     summary |-> [total_records_processed |-> 0, records_validated |-> 0,
                  records_loaded |-> 0, records_rejected |-> 0],
     message |-> "Aucune donnée à analyser",
     errors |-> StatsGet(s, "errors", <<>>)]

_calculate_rejection_rate_of_validated(s) ==
    LET total == StatsGet(s, "records_validated", 0)
        rejected == StatsGet(s, "records_rejected", 0)
    IN  IF total = 0 THEN [val |-> Rate(0), divisions |-> 0]
        ELSE [val |-> Rate(RoundRatio(rejected, total, 10000)), divisions |-> 1]

_calculate_rejection_rate(s) ==
    LET total == StatsGet(s, "records_extracted", 0)
        rejected == StatsGet(s, "records_rejected", 0)
    IN  IF total = 0 THEN [val |-> Rate(0), divisions |-> 0]
        ELSE [val |-> Rate(RoundRatio(rejected, total, 10000)), divisions |-> 1]

_analyze_by_station_per_record(docs) ==
    LET with_id == SelectSeq(docs, LAMBDA r : Truthy(r.station.id))
        ids == InsertionOrder([i \in 1..Len(with_id) |-> with_id[i].station.id])
        Of(id) == SelectSeq(with_id, LAMBDA r : r.station.id = id)
        Entry(id) ==
            LET last == Of(id)[Len(Of(id))]
            IN  [network |-> last.station.network,
                 station_name |-> last.station.name,
                 records |-> Len(Of(id)),
                 avg_completeness |-> IF ScoresOf(Of(id)) = <<>> THEN PyInt(0)
                                      ELSE Score(RoundMean(SumMilli(ScoresOf(Of(id))), Len(Of(id)))),
                 anomalies |-> CountAnomalies(Of(id)),
                 location |-> last.station.location]
    IN  [val |-> [i \in 1..Len(ids) |-> [key |-> ids[i], val |-> Entry(ids[i])]],
         divisions |-> Cardinality({i \in 1..Len(ids) : ScoresOf(Of(ids[i])) # <<>>})]

_analyze_by_station(docs) ==
    LET with_id == SelectSeq(docs, LAMBDA r : Truthy(r.station.id))
        ids == InsertionOrder([i \in 1..Len(with_id) |-> with_id[i].station.id])
        Of(id) == SelectSeq(with_id, LAMBDA r : r.station.id = id)
        Entry(id) ==
            LET last == Of(id)[Len(Of(id))]
            IN  [network |-> last.station.network,
                 station_name |-> last.station.name,
                 records |-> Len(Of(id)),
                 avg_completeness |-> AvgCompleteness(ScoresOf(Of(id))),
                 anomalies |-> CountAnomalies(Of(id)),
                 location |-> last.station.location]
    IN  [val |-> [i \in 1..Len(ids) |-> [key |-> ids[i], val |-> Entry(ids[i])]],
         divisions |-> Cardinality({i \in 1..Len(ids) : ScoresOf(Of(ids[i])) # <<>>})]

_analyze_by_network_per_record(docs) ==
    LET with_network == SelectSeq(docs, LAMBDA r : Truthy(r.station.network))
        networks == InsertionOrder([i \in 1..Len(with_network) |-> with_network[i].station.network])
        Of(network) == SelectSeq(with_network, LAMBDA r : r.station.network = network)
        Stations(network) ==
            {Of(network)[i].station.id : i \in {j \in 1..Len(Of(network)) : Truthy(Of(network)[j].station.id)}}
        Entry(network) ==
            [records |-> Len(Of(network)),
             stations_count |-> Len(Of(network)),
             avg_completeness |-> AvgCompleteness(ScoresOf(Of(network)))]
    IN  [val |-> [i \in 1..Len(networks) |-> [key |-> networks[i], val |-> Entry(networks[i])]],
         divisions |-> Cardinality({i \in 1..Len(networks) : ScoresOf(Of(networks[i])) # <<>>})]

_analyze_by_network(docs) ==
    LET with_network == SelectSeq(docs, LAMBDA r : Truthy(r.station.network))
        networks == InsertionOrder([i \in 1..Len(with_network) |-> with_network[i].station.network])
        Of(network) == SelectSeq(with_network, LAMBDA r : r.station.network = network)
        Stations(network) ==
            {Of(network)[i].station.id : i \in {j \in 1..Len(Of(network)) : Truthy(Of(network)[j].station.id)}}
        Entry(network) ==
            [records |-> Len(Of(network)),
             stations_count |-> Cardinality(Stations(network)),
             avg_completeness |-> AvgCompleteness(ScoresOf(Of(network)))]
    IN  [val |-> [i \in 1..Len(networks) |-> [key |-> networks[i], val |-> Entry(networks[i])]],
         divisions |-> Cardinality({i \in 1..Len(networks) : ScoresOf(Of(networks[i])) # <<>>})]

_analyze_field_completeness(docs) ==
    LET entries == Concat([i \in 1..Len(docs) |-> SelectDicts(docs[i].measurements)])
        names == InsertionOrder([i \in 1..Len(entries) |-> entries[i].name])
        Of(name) == SelectSeq(entries, LAMBDA e : e.name = name)
        Entry(name) ==
            LET total == Len(Of(name))
                filled == Len(SelectSeq(Of(name), LAMBDA e : ~IsNone(e.m.value)))
            IN  [completeness |-> Score(RoundRatio(filled, total, 1000)),
                 filled_count |-> filled,
                 total_count |-> total]
    IN  [val |-> [i \in 1..Len(names) |-> [key |-> names[i], val |-> Entry(names[i])]],
         divisions |-> Len(names)]

\* the instant a datetime denotes, a naive one read as UTC
Instant(dt) == dt.at - dt.off

\* list.sort() compares datetimes: TypeError between a naive and an aware one
_analyze_temporal_coverage(docs) ==
    LET with_ts == SelectSeq(docs, LAMBDA r : Truthy(r.timestamp))
        parses == [i \in 1..Len(with_ts) |-> fromisoformat(ReplaceZ(TextOf(with_ts[i].timestamp)))]
        parsed == SelectSeq(parses, LAMBDA p : p.exc = "none")
        timestamps == [i \in 1..Len(parsed) |-> parsed[i].val]
        n == Len(timestamps)
        first == CHOOSE i \in 1..n :
                    /\ \A j \in 1..n : Instant(timestamps[i]) <= Instant(timestamps[j])
                    /\ \A j \in 1..(i - 1) : Instant(timestamps[j]) # Instant(timestamps[i])
        last == CHOOSE i \in 1..n :
                    /\ \A j \in 1..n : Instant(timestamps[j]) <= Instant(timestamps[i])
                    /\ \A j \in (i + 1)..n : Instant(timestamps[j]) # Instant(timestamps[i])
    IN  IF n = 0
        THEN [exc |-> "none",
              val |-> [min_timestamp |-> PyNone, max_timestamp |-> PyNone,
                       time_span_hours |-> PyInt(0), records_count |-> 0],
              divisions |-> 0]
        ELSE IF \E i, j \in 1..n : timestamps[i].aware # timestamps[j].aware
        THEN [exc |-> "TypeError", val |-> PyNone, divisions |-> 0]
        ELSE [exc |-> "none",
              val |-> [min_timestamp |-> isoformat(timestamps[first]),
                       max_timestamp |-> isoformat(timestamps[last]),
                       time_span_hours |->
                           Hours(RoundRatio(Instant(timestamps[last]) - Instant(timestamps[first]), 60, 100)),
                       records_count |-> n],
              divisions |-> 1]

MinMilli(scores) ==
    CHOOSE m \in {scores[i].milli : i \in 1..Len(scores)} :
        \A i \in 1..Len(scores) : m <= scores[i].milli

MaxMilli(scores) ==
    CHOOSE m \in {scores[i].milli : i \in 1..Len(scores)} :
        \A i \in 1..Len(scores) : m >= scores[i].milli

_analyze_quality_scores(docs) ==
    LET scores == ScoresOf(docs)
        validation_passed ==
            Len(SelectSeq(docs, LAMBDA r : Truthy(r.data_quality.validation_passed)))
        anomalies_detected == CountAnomalies(docs)
    IN  IF scores = <<>>
        THEN [val |-> [avg_completeness |-> PyInt(0), min_completeness |-> PyInt(0),
                       max_completeness |-> PyInt(0), validation_passed |-> 0,
                       anomalies_detected |-> 0],
              divisions |-> 0]
        ELSE [val |-> [avg_completeness |-> Score(RoundMean(SumMilli(scores), Len(scores))),
                       min_completeness |-> Score(MinMilli(scores)),
                       max_completeness |-> Score(MaxMilli(scores)),
                       validation_passed |-> validation_passed,
                       validation_passed_rate |-> Score(RoundRatio(validation_passed, Len(docs), 1000)),
                       anomalies_detected |-> anomalies_detected,
                       anomalies_rate |-> Score(RoundRatio(anomalies_detected, Len(docs), 1000))],
              divisions |-> 3]

\* the length the anomalies list is cut to
MaxAnomalies == 100

_detect_anomalies_uncapped(docs) ==
    LET flagged == SelectSeq([i \in 1..Len(docs) |-> [index |-> i - 1, r |-> docs[i]]],
                             LAMBDA x : Truthy(x.r.data_quality.anomalies_detected))
        anomalies == [i \in 1..Len(flagged) |->
                        [record_index |-> flagged[i].index,
                         station_id |-> flagged[i].r.station.id,
                         station_name |-> flagged[i].r.station.name,
                         timestamp |-> flagged[i].r.timestamp,
                         missing_fields |-> flagged[i].r.data_quality.missing_fields,
                         completeness_score |-> flagged[i].r.data_quality.completeness_score]]
    IN  anomalies

_detect_anomalies(docs) ==
    LET flagged == SelectSeq([i \in 1..Len(docs) |-> [index |-> i - 1, r |-> docs[i]]],
                             LAMBDA x : Truthy(x.r.data_quality.anomalies_detected))
        anomalies == [i \in 1..Len(flagged) |->
                        [record_index |-> flagged[i].index,
                         station_id |-> flagged[i].r.station.id,
                         station_name |-> flagged[i].r.station.name,
                         timestamp |-> flagged[i].r.timestamp,
                         missing_fields |-> flagged[i].r.data_quality.missing_fields,
                         completeness_score |-> flagged[i].r.data_quality.completeness_score]]
    IN  IF Len(anomalies) <= MaxAnomalies THEN anomalies ELSE SubSeq(anomalies, 1, MaxAnomalies)

ArgumentsAfter_popping(docs, s) ==
    [records |-> docs, stats |-> [k \in DOMAIN s \ {"errors"} |-> s[k]]]

\* the arguments as the call leaves them: stats is read with stats.get only,
\* the documents with .get and iteration; what the analyses assign to,
\* append to and sort are the dicts and lists they build themselves
\* (station_stats, network_stats, field_stats, timestamps, scores, anomalies)
ArgumentsAfter(docs, s) == [records |-> docs, stats |-> s]

\* the report of a batch: [exc, val, divisions]
FullReport(docs, s, clock) ==
    LET rate == _calculate_rejection_rate(s)
        by_station == _analyze_by_station(docs)
        by_network == _analyze_by_network(docs)
        field_completeness == _analyze_field_completeness(docs)
        temporal == _analyze_temporal_coverage(docs)
        scores == _analyze_quality_scores(docs)
    IN  IF temporal.exc # "none"
        THEN [exc |-> temporal.exc, val |-> PyNone,
              divisions |-> rate.divisions + by_station.divisions + by_network.divisions
                            + field_completeness.divisions]
        ELSE [exc |-> "none",
              val |-> [execution_info |-> ExecutionInfo(s, clock),
                       summary |-> [total_records_processed |-> StatsGet(s, "records_extracted", 0),
                                    records_transformed |-> StatsGet(s, "records_transformed", 0),
                                    records_validated |-> StatsGet(s, "records_validated", 0),
                                    records_loaded |-> StatsGet(s, "records_loaded", 0),
                                    records_rejected |-> StatsGet(s, "records_rejected", 0),
                                    rejection_rate |-> rate.val],
                       by_station |-> by_station.val,
                       by_network |-> by_network.val,
                       field_completeness |-> field_completeness.val,
                       temporal_analysis |-> temporal.val,
                       data_quality_scores |-> scores.val,
                       anomalies |-> _detect_anomalies(docs),
                       errors |-> StatsGet(s, "errors", <<>>)],
              divisions |-> rate.divisions + by_station.divisions + by_network.divisions
                            + field_completeness.divisions + temporal.divisions
                            + scores.divisions]

generate_report_unguarded(docs, s, clock) == FullReport(docs, s, clock)

generate_report(docs, s, clock) ==
    IF docs = <<>>
    THEN [exc |-> "none", val |-> _empty_report(s, clock), divisions |-> 0]
    ELSE FullReport(docs, s, clock)

-----------------------------------------------------------------------------
(* The inputs: batches of validated documents and run statistics *)

\* how many documents a batch holds at most
MaxBatch == 2

\* how many records a run extracted at most
MaxExtracted == 2

\* the document of test_validate_out_of_range_temperature
hot_record == [valid_record EXCEPT !.measurements[1].m.value = PyFloat(750)]

\* the valid_record fixture with a timestamp that ends in Z
zulu_record == [valid_record EXCEPT !.timestamp = TimeText("iso_T_sec_Z", Clock - 60, 0)]

\* a synoptic record whose dh_utc carries a UTC offset
infoclimat_offset ==
    [infoclimat_sample EXCEPT !.timestamp = TimeText("iso_T_sec_off", Clock - 60, 120)]

\* a synoptic record whose dh_utc is a US date and time, which the entry
\* point passes on as it is
infoclimat_slash ==
    [infoclimat_sample EXCEPT !.timestamp = TimeText("us_ampm", Clock - 90, 0)]

\* documents after validate, as a caller collects them: the fixtures and the
\* harmonized samples
ValidatedDocuments ==
    {validate(d, FALSE, Clock).record :
        d \in {valid_record, bare_record, hot_record, zulu_record,
               harmonize_infoclimat(infoclimat_sample, Clock).val,
               harmonize_infoclimat(infoclimat_offset, Clock).val,
               harmonize_infoclimat(infoclimat_slash, Clock).val,
               harmonize_wunderground(wunderground_sample, Clock).val,
               harmonize_wunderground(wunderground_blank, Clock).val}}

\* the documents of a batch: validated ones, and one read back from a file
\* that was never validated (its data_quality is as the harmonizer left it)
ReportDocuments ==
    ValidatedDocuments \cup {harmonize_infoclimat(infoclimat_sample, Clock).val}

\* the same reading at the other crowd-sourced station
hot_neighbour ==
    [hot_record EXCEPT !.station.id = wunderground_sample.station_id,
                       !.station.name = wunderground_sample.station_name]

\* batches about as long as the anomalies list may get: anomalous documents
\* of two stations in turn, with one document that is not anomalous at the
\* position `quiet` (none when quiet is 0)
LongBatch(n, quiet) ==
    [i \in 1..n |->
        IF i = quiet THEN validate(valid_record, FALSE, Clock).record
        ELSE IF i % 2 = 0 THEN validate(hot_record, FALSE, Clock).record
        ELSE validate(hot_neighbour, FALSE, Clock).record]

LongBatches ==
    {LongBatch(n, quiet) : n \in (MaxAnomalies - 1)..(MaxAnomalies + MaxBatch),
                           quiet \in 0..MaxBatch}

\* a mapping without any key
EmptyStats == [key \in {} |-> PyNone]

\* self.stats of a pipeline that extracted n records and rejected r of them
RunStats(n, r, errors) ==
    [start_time |-> DateTime(Clock - 5, FALSE, 0),
     records_extracted |-> n,
     records_transformed |-> n - r,
     records_validated |-> n - r,
     processed_s3_path |-> PyNone,
     records_loaded |-> n - r,
     records_rejected |-> r,
     errors |-> errors]

\* self.stats of a dry run that extracted n records, rejected one of them in
\* validation and loaded none
DryRunStats(n) ==
    [RunStats(n, 1, <<>>) EXCEPT !.records_transformed = n, !.records_loaded = 0]

StatsSamples ==
    {EmptyStats, DryRunStats(MaxExtracted)}
    \cup UNION { {RunStats(n, r, errors) :
                    r \in 0..n, errors \in {<<>>, <<"Connection refused">>}} :
                 n \in 0..MaxExtracted }

-----------------------------------------------------------------------------
(* The life of one document: a raw record is harmonized by the entry point *)
(* of its source, and the document is validated; or a caller hands a       *)
(* document of its own to validate.                                        *)

\* no pipeline is running
NoRun ==
    /\ dry_run = FALSE
    /\ feeds = [infoclimat |-> <<>>, wunderground |-> <<>>]
    /\ faults = {}
    /\ stage = "idle"
    /\ extracted_data = PyNone
    /\ cursor = 0
    /\ results = <<>>
    /\ valid = <<>>
    /\ calls = <<>>
    /\ collection = <<>>
    /\ load_result = PyNone
    /\ status = "SUCCESS"
    /\ status_files = <<>>

Init ==
    /\ NoRun
    /\ \/ /\ \E rec \in SampleRecords :
                \E choices \in [1..MaxVaried -> RawChoices(rec)] :
                    record = ApplyRawChoices(rec, choices, MaxVaried)
          /\ doc = PyNone
          /\ pc = "raw"
       \/ /\ record = PyNone
          /\ \E d \in SampleDocuments :
                \E choices \in [1..MaxVaried -> DocChoices(d)] :
                    doc = ApplyDocChoices(d, choices, MaxVaried)
          /\ pc = "document"
    /\ result = PyNone
    /\ raised = "none"
    /\ strict_mode \in BOOLEAN
    /\ now = Clock
    /\ records = <<>>
    /\ stats = EmptyStats
    /\ report = PyNone
    /\ divisions = 0

\* results.append(self.harmonizer.harmonize_infoclimat(record))
HarmonizeInfoclimat ==
    /\ pc = "raw"
    /\ record.source = "infoclimat"
    /\ LET h == harmonize_infoclimat(record, now)
       IN  /\ doc' = h.val
           /\ raised' = h.exc
           /\ pc' = IF h.exc = "none" THEN "document" ELSE "raised"
    /\ UNCHANGED <<record, result, strict_mode, now, records, stats, report, divisions>>
    /\ UNCHANGED run_vars

\* results.append(self.harmonizer.harmonize_wunderground(record))
HarmonizeWunderground ==
    /\ pc = "raw"
    /\ record.source = "wunderground"
    /\ LET h == harmonize_wunderground(record, now)
       IN  /\ doc' = h.val
           /\ raised' = h.exc
           /\ pc' = IF h.exc = "none" THEN "document" ELSE "raised"
    /\ UNCHANGED <<record, result, strict_mode, now, records, stats, report, divisions>>
    /\ UNCHANGED run_vars

\* res = self.validator.validate(record)
Validate ==
    /\ pc = "document"
    /\ LET r == validate(doc, strict_mode, now)
       IN  /\ doc' = r.record
           /\ result' = r.val
           /\ raised' = r.exc
           /\ pc' = IF r.exc = "none" THEN "validated" ELSE "raised"
    /\ UNCHANGED <<record, strict_mode, now, records, stats, report, divisions>>
    /\ UNCHANGED run_vars

\* res = self.validator.validate(record), on a document validated before
ValidateAgain ==
    /\ pc = "validated"
    /\ LET r == validate(doc, strict_mode, now)
       IN  /\ doc' = r.record
           /\ result' = r.val
           /\ raised' = r.exc
           /\ pc' = IF r.exc = "none" THEN "revalidated" ELSE "raised"
    /\ UNCHANGED <<record, strict_mode, now, records, stats, report, divisions>>
    /\ UNCHANGED run_vars

Next == HarmonizeInfoclimat \/ HarmonizeWunderground \/ Validate \/ ValidateAgain

Spec == Init /\ [][Next]_vars

-----------------------------------------------------------------------------
(* The quality report of one batch *)

InitReport ==
    /\ NoRun
    /\ \/ \E n \in 0..MaxBatch : records \in [1..n -> ReportDocuments]
       \/ records \in LongBatches
    /\ stats \in StatsSamples
    /\ report = PyNone
    /\ divisions = 0
    /\ record = PyNone
    /\ doc = PyNone
    /\ result = PyNone
    /\ raised = "none"
    /\ strict_mode = FALSE
    /\ now = Clock
    /\ pc = "batch"

\* report = self.quality_checker.generate_report(records, self.stats)
GenerateReport ==
    /\ pc = "batch"
    /\ LET g == generate_report(records, stats, now)
       IN  /\ report' = g.val
           /\ raised' = g.exc
           /\ divisions' = g.divisions
           /\ pc' = IF g.exc = "none" THEN "reported" ELSE "raised"
    /\ records' = ArgumentsAfter(records, stats).records
    /\ stats' = ArgumentsAfter(records, stats).stats
    /\ UNCHANGED <<record, doc, result, strict_mode, now>>
    /\ UNCHANGED run_vars

NextReport == GenerateReport

SpecReport == InitReport /\ [][NextReport]_vars

-----------------------------------------------------------------------------
(* Forecast2Pipeline: one call of run.  The extractors, the S3 loader, the  *)
(* MongoDB driver and the report files are collaborators: each either      *)
(* works or raises, as `faults` says.                                      *)

\* d[key] = v on a dict
Put(d, key, v) == [k \in DOMAIN d \cup {key} |-> IF k = key THEN v ELSE d[k]]

\* self.stats as __init__ leaves it
InitialStats ==
    [start_time |-> DateTime(Clock, FALSE, 0),
     records_extracted |-> 0,
     records_transformed |-> 0,
     records_validated |-> 0,
     processed_s3_path |-> PyNone,
     records_loaded |-> 0,
     records_rejected |-> 0,
     errors |-> <<>>]

\* the collaborators that can fail: the two extractors, save_processed_data,
\* insert_many (an error, or a BulkWriteError for one duplicate), the file
\* of the quality report, the latency query and save_report_json
Faults ==
    {"infoclimat", "wunderground", "s3_processed", "insert_many", "bulk_write",
     "quality_file", "latency", "publish"}

\* self.stats["records_rejected"] += 1
Rejected(s) == [s EXCEPT !.records_rejected = @ + 1]

\* extract_data: [val |-> extracted, stats |-> self.stats afterwards]
extract_data(f, flt, s) ==
    LET infoclimat == IF "infoclimat" \in flt THEN <<>> ELSE f.infoclimat
        wunderground == IF "wunderground" \in flt THEN <<>> ELSE f.wunderground
        errors == s.errors
                  \o (IF "infoclimat" \in flt THEN <<"Connection refused">> ELSE <<>>)
                  \o (IF "wunderground" \in flt THEN <<"Connection refused">> ELSE <<>>)
    IN  [val |-> [infoclimat |-> infoclimat, wunderground |-> wunderground],
         stats |-> [s EXCEPT !.errors = errors,
                             !.records_extracted = Len(infoclimat) + Len(wunderground)]]

\* how a call of a harmonizer or of validate ended: the exception it raised,
\* the verdict of validate, or "document" for a harmonizer that returned
Outcome(c) ==
    IF c.exc # "none" THEN c.exc
    ELSE IF "is_valid" \in DOMAIN c.val THEN (IF c.val.is_valid THEN "valid" ELSE "invalid")
    ELSE "document"

\* a record whose harmonization raised is dropped without being counted
Transformed_uncounted(res, s, h) ==
    IF h.exc = "none" THEN [results |-> Append(res, h.val), stats |-> s]
    ELSE [results |-> res, stats |-> s]

\* the body of a loop of transform_data for the outcome h of the harmonizer:
\* [results, stats]
Transformed(res, s, h) ==
    IF h.exc = "none" THEN [results |-> Append(res, h.val), stats |-> s]
    ELSE [results |-> res, stats |-> Rejected(s)]

\* the body of the loop of validate_data for the outcome r of validate:
\* [valid, stats]
Checked_all(val, s, r) ==
    IF r.exc = "none" THEN [valid |-> Append(val, r.record), stats |-> s]
    ELSE [valid |-> val, stats |-> Rejected(s)]

Checked(val, s, r) ==
    IF r.exc = "none" /\ r.val.is_valid THEN [valid |-> Append(val, r.record), stats |-> s]
    ELSE [valid |-> val, stats |-> Rejected(s)]

\* bulk_insert_with_stats: [exc, val |-> result, collection]; the loader of
\* a dry run has no collection
bulk_insert_with_stats(recs, dry, coll, flt) ==
    LET total == Len(recs)
        counts == [input_records |-> total, inserted_records |-> 0,
                   duplicates_ignored |-> 0, failed_records |-> 0]
    IN  IF recs = <<>> THEN [exc |-> "none", val |-> counts, collection |-> coll]
        ELSE IF dry
        THEN [exc |-> "none", val |-> [counts EXCEPT !.inserted_records = total],
              collection |-> coll]
        ELSE IF "insert_many" \in flt
        THEN [exc |-> "PyMongoError", val |-> counts, collection |-> coll]
        ELSE IF "bulk_write" \in flt
        THEN [exc |-> "none",
              val |-> [counts EXCEPT !.inserted_records = total - 1,
                                     !.duplicates_ignored = 1],
              collection |-> coll \o Tail(recs)]
        ELSE [exc |-> "none", val |-> [counts EXCEPT !.inserted_records = total],
              collection |-> coll \o recs]

\* what load_data does with insert_stats: [val |-> returned, stats]
Loaded_counting(s, dry, insert_stats) ==
    LET t == Put(Put(s, "duplicates_ignored", insert_stats.duplicates_ignored),
                 "failed_records", insert_stats.failed_records)
    IN  [val |-> insert_stats.inserted_records,
         stats |-> [t EXCEPT !.records_loaded = insert_stats.inserted_records]]

Loaded(s, dry, insert_stats) ==
    LET count == insert_stats.inserted_records
        t == Put(Put(s, "duplicates_ignored", insert_stats.duplicates_ignored),
                 "failed_records", insert_stats.failed_records)
    IN  IF dry
        THEN [val |-> 0,
              stats |-> Put([t EXCEPT !.records_loaded = 0], "records_loaded_simulated", count)]
        ELSE [val |-> count, stats |-> [t EXCEPT !.records_loaded = count]]

\* load_data: [exc, val |-> returned, stats, collection]
load_data(recs, s, dry, coll, flt) ==
    IF recs = <<>> THEN [exc |-> "none", val |-> 0, stats |-> s, collection |-> coll]
    ELSE LET b == bulk_insert_with_stats(recs, dry, coll, flt)
         IN  IF b.exc # "none"
             THEN [exc |-> b.exc, val |-> PyNone, stats |-> s, collection |-> b.collection]
             ELSE [exc |-> "none", val |-> Loaded(s, dry, b.val).val,
                   stats |-> Loaded(s, dry, b.val).stats, collection |-> b.collection]

\* _refresh_timing_stats
_refresh_timing_stats(s, clock) ==
    Put(Put(s, "end_time", DateTime(clock, FALSE, 0)), "duration_seconds", 0)

\* the status_data of write_status_file
write_status_file(st, dry, s, clock) ==
    [status |-> st,
     dry_run |-> dry,
     records_extracted |-> s.records_extracted,
     records_validated |-> s.records_validated,
     processed_s3_path |-> StatsGet(s, "processed_s3_path", PyNone),
     records_loaded |-> StatsGet(s, "records_loaded", 0),
     records_loaded_simulated |-> StatsGet(s, "records_loaded_simulated", 0),
     duplicates_ignored |-> StatsGet(s, "duplicates_ignored", 0),
     failed_records |-> StatsGet(s, "failed_records", 0),
     duration_seconds |-> 0,
     timestamp |-> isoformat(DateTime(clock, FALSE, 0))]

\* how many records an extractor returns at most
MaxFeed == 1

\* how many collaborators fail in one run at most
MaxFaults == 1

\* a synoptic record whose elevation reads 1e999 in the JSON file
infoclimat_overflow == [infoclimat_sample EXCEPT !.elevation = PyInf]

InfoclimatFeed == {infoclimat_sample, infoclimat_offset, infoclimat_unknown, infoclimat_overflow}

WundergroundFeed == {wunderground_sample, wunderground_blank}

\* the variables of the life of one document and of one report
unit_vars == <<record, doc, result, records, divisions, pc>>

\* what a run is given
given_vars == <<strict_mode, now, dry_run, feeds, faults>>

InitPipeline ==
    /\ record = PyNone
    /\ doc = PyNone
    /\ result = PyNone
    /\ records = <<>>
    /\ divisions = 0
    /\ pc = "run"
    /\ strict_mode \in BOOLEAN
    /\ now = Clock
    /\ dry_run \in BOOLEAN
    /\ \E n \in 0..MaxFeed, m \in 0..MaxFeed :
          feeds \in [infoclimat : [1..n -> InfoclimatFeed],
                     wunderground : [1..m -> WundergroundFeed]]
    /\ faults \in {F \in SUBSET Faults : Cardinality(F) <= MaxFaults}
    /\ stats = InitialStats
    /\ report = PyNone
    /\ raised = "none"
    /\ stage = "extract"
    /\ extracted_data = PyNone
    /\ cursor = 0
    /\ results = <<>>
    /\ valid = <<>>
    /\ calls = <<>>
    /\ collection = <<>>
    /\ load_result = PyNone
    /\ status = "SUCCESS"
    /\ status_files = <<>>

\* extracted_data = self.extract_data(effective_date)
ExtractData ==
    /\ stage = "extract"
    /\ extracted_data' = extract_data(feeds, faults, stats).val
    /\ stats' = extract_data(feeds, faults, stats).stats
    /\ stage' = "transform"
    /\ cursor' = 0
    /\ UNCHANGED <<unit_vars, given_vars, report, raised, results, valid, calls, collection,
                   load_result, status, status_files>>

\* for record in raw_data.get("infoclimat", []): one turn of the loop
TransformInfoclimat ==
    /\ stage = "transform"
    /\ cursor < Len(extracted_data.infoclimat)
    /\ LET h == harmonize_infoclimat(extracted_data.infoclimat[cursor + 1], now)
       IN  /\ results' = Transformed(results, stats, h).results
           /\ stats' = Transformed(results, stats, h).stats
           /\ calls' = Append(calls, [op |-> "harmonize", source |-> "infoclimat",
                                      index |-> cursor + 1, outcome |-> Outcome(h)])
    /\ cursor' = cursor + 1
    /\ UNCHANGED <<unit_vars, given_vars, report, raised, stage, extracted_data, valid,
                   collection, load_result, status, status_files>>

\* for record in raw_data.get("wunderground", []): one turn of the loop
TransformWunderground ==
    /\ stage = "transform"
    /\ cursor >= Len(extracted_data.infoclimat)
    /\ cursor < Len(extracted_data.infoclimat) + Len(extracted_data.wunderground)
    /\ LET i == cursor - Len(extracted_data.infoclimat) + 1
           h == harmonize_wunderground(extracted_data.wunderground[i], now)
       IN  /\ results' = Transformed(results, stats, h).results
           /\ stats' = Transformed(results, stats, h).stats
           /\ calls' = Append(calls, [op |-> "harmonize", source |-> "wunderground",
                                      index |-> i, outcome |-> Outcome(h)])
    /\ cursor' = cursor + 1
    /\ UNCHANGED <<unit_vars, given_vars, report, raised, stage, extracted_data, valid,
                   collection, load_result, status, status_files>>

TransformDone_early ==
    /\ stage = "transform"
    /\ cursor >= Len(extracted_data.infoclimat)
    /\ stats' = [stats EXCEPT !.records_transformed = Len(results)]
    /\ stage' = "validate"
    /\ cursor' = 0
    /\ UNCHANGED <<unit_vars, given_vars, report, raised, extracted_data, results, valid, calls,
                   collection, load_result, status, status_files>>

\* self.stats["records_transformed"] = len(results); return results
TransformDone ==
    /\ stage = "transform"
    /\ cursor = Len(extracted_data.infoclimat) + Len(extracted_data.wunderground)
    /\ stats' = [stats EXCEPT !.records_transformed = Len(results)]
    /\ stage' = "validate"
    /\ cursor' = 0
    /\ UNCHANGED <<unit_vars, given_vars, report, raised, extracted_data, results, valid, calls,
                   collection, load_result, status, status_files>>

\* for record in records: one turn of the loop of validate_data; validate
\* annotates the document in place
ValidateRecord ==
    /\ stage = "validate"
    /\ cursor < Len(results)
    /\ LET r == validate(results[cursor + 1], strict_mode, now)
       IN  /\ results' = [results EXCEPT ![cursor + 1] = r.record]
           /\ valid' = Checked(valid, stats, r).valid
           /\ stats' = Checked(valid, stats, r).stats
           /\ calls' = Append(calls, [op |-> "validate", source |-> "results",
                                      index |-> cursor + 1, outcome |-> Outcome(r)])
    /\ cursor' = cursor + 1
    /\ UNCHANGED <<unit_vars, given_vars, report, raised, stage, extracted_data,
                   collection, load_result, status, status_files>>

\* self.stats["records_validated"] = len(valid); return valid
ValidateDone ==
    /\ stage = "validate"
    /\ cursor = Len(results)
    /\ stats' = [stats EXCEPT !.records_validated = Len(valid)]
    /\ stage' = "save_processed_s3"
    /\ cursor' = 0
    /\ UNCHANGED <<unit_vars, given_vars, report, raised, extracted_data, results, valid, calls,
                   collection, load_result, status, status_files>>

\* self.save_validated_to_s3(validated_data, effective_date); an exception
\* reaches the handler of run, which sets status and re-raises
SaveValidatedToS3 ==
    /\ stage = "save_processed_s3"
    /\ IF valid = <<>>
       THEN /\ stage' = "load"
            /\ UNCHANGED <<stats, status, raised>>
       ELSE IF "s3_processed" \in faults
       THEN /\ stage' = "finally"
            /\ status' = "FAILED"
            /\ raised' = "ClientError"
            /\ UNCHANGED stats
       ELSE /\ stage' = "load"
            /\ stats' = [stats EXCEPT !.processed_s3_path = PyStr(<<"s","3",":","/","/">>)]
            /\ UNCHANGED <<status, raised>>
    /\ UNCHANGED <<unit_vars, given_vars, report, extracted_data, cursor, results, valid, calls,
                   collection, load_result, status_files>>

\* self.load_data(validated_data)
LoadData ==
    /\ stage = "load"
    /\ LET l == load_data(valid, stats, dry_run, collection, faults)
       IN  /\ collection' = l.collection
           /\ stats' = l.stats
           /\ load_result' = IF l.exc = "none" THEN PyInt(l.val) ELSE PyNone
           /\ raised' = l.exc
           /\ status' = IF l.exc = "none" THEN status ELSE "FAILED"
           /\ stage' = IF l.exc = "none" THEN "report" ELSE "finally"
    /\ UNCHANGED <<unit_vars, given_vars, report, extracted_data, cursor, results, valid, calls,
                   status_files>>

\* self._refresh_timing_stats(start_time);
\* quality_report = self.generate_quality_report(validated_data)
GenerateQualityReport ==
    /\ stage = "report"
    /\ \E timed \in {_refresh_timing_stats(stats, now)} :
          \E g \in {generate_report(valid, timed, now)} :
             \E exc \in {IF g.exc # "none" THEN g.exc
                          ELSE IF "quality_file" \in faults THEN "OSError" ELSE "none"} :
                /\ raised' = exc
                /\ report' = IF exc = "none" THEN g.val ELSE PyNone
                /\ stats' = IF exc = "none"
                            THEN Put(timed, "quality_report_path", PyStr(<<"l","o","g","s","/">>))
                            ELSE timed
                /\ status' = IF exc = "none" THEN status ELSE "FAILED"
                /\ stage' = IF exc = "none" THEN "latency" ELSE "finally"
    /\ UNCHANGED <<unit_vars, given_vars, extracted_data, cursor, results, valid, calls,
                   collection, load_result, status_files>>

\* latency_report = self.generate_latency_report(...), inside its own
\* try / except Exception
GenerateLatencyReport ==
    /\ stage = "latency"
    /\ stats' = IF dry_run \/ "latency" \in faults THEN stats
                ELSE Put(stats, "latency_report_path", PyStr(<<"l","o","g","s","/">>))
    /\ stage' = "finally"
    /\ UNCHANGED <<unit_vars, given_vars, report, raised, extracted_data, cursor, results, valid,
                   calls, collection, load_result, status, status_files>>

\* finally: duration = self._refresh_timing_stats(start_time);
\* self.stats["status"] = status; status_data = self.write_status_file(...)
WriteStatusFile ==
    /\ stage = "finally"
    /\ LET timed == Put(_refresh_timing_stats(stats, now), "status", status)
       IN  /\ status_files' = Append(status_files, write_status_file(status, dry_run, timed, now))
           /\ stats' = Put(timed, "status_path", PyStr(<<"l","o","g","s","/">>))
    /\ stage' = "publish"
    /\ UNCHANGED <<unit_vars, given_vars, report, raised, extracted_data, cursor, results, valid,
                   calls, collection, load_result, status>>

\* a failed publication leaves run as an exception
PublishReports_propagating ==
    /\ stage = "publish"
    /\ stage' = IF raised = "none" /\ "publish" \notin faults THEN "returned" ELSE "raised"
    /\ raised' = IF raised = "none" /\ "publish" \in faults THEN "ClientError" ELSE raised
    /\ UNCHANGED <<unit_vars, given_vars, stats, report, extracted_data, cursor, results,
                   valid, calls, collection, load_result, status, status_files>>

\* self.publish_reports_to_s3(...), inside its own try / except Exception;
\* then the exception of the failed stage, if any, leaves run
PublishReports ==
    /\ stage = "publish"
    /\ stage' = IF raised = "none" THEN "returned" ELSE "raised"
    /\ UNCHANGED <<unit_vars, given_vars, stats, report, raised, extracted_data, cursor, results,
                   valid, calls, collection, load_result, status, status_files>>

NextPipeline ==
    \/ ExtractData
    \/ TransformInfoclimat
    \/ TransformWunderground
    \/ TransformDone
    \/ ValidateRecord
    \/ ValidateDone
    \/ SaveValidatedToS3
    \/ LoadData
    \/ GenerateQualityReport
    \/ GenerateLatencyReport
    \/ WriteStatusFile
    \/ PublishReports

SpecPipeline == InitPipeline /\ [][NextPipeline]_vars

-----------------------------------------------------------------------------
(* Properties *)

\* the document came out of a harmonizer entry point
Harmonized == record # PyNone /\ doc # PyNone

\* validate was called on doc and returned
Validated == pc = "validated"

\* validate was called on doc and raised
ValidateRaised == pc = "raised" /\ doc # PyNone

IsNumberOrNone(x) == x.t \in {"None", "int", "float"}

IsStrOrNone(x) == x.t \in {"None", "str"}

\* a well-formed unified document: station with location, timestamp a
\* string or null, every measurement a {value: number or null, unit} pair
WellFormed(d) ==
    /\ IsNumberOrNone(d.station.location.latitude)
    /\ IsNumberOrNone(d.station.location.longitude)
    /\ IsNumberOrNone(d.station.location.elevation)
    /\ IsStrOrNone(d.timestamp)
    /\ \A i \in 1..Len(d.measurements) :
          IsDict(d.measurements[i].m) /\ IsNumberOrNone(d.measurements[i].m.value)

AllNull(d) ==
    /\ Len(d.measurements) > 0
    /\ \A i \in 1..Len(d.measurements) :
          IsDict(d.measurements[i].m) /\ IsNone(d.measurements[i].m.value)

\* C1: validate never raises for a well-formed unified document, in strict
\* and in non-strict mode; it returns {is_valid, errors, warnings} in which
\* is_valid is true exactly when the returned errors list is empty.
C1_ValidateTotal ==
    (doc # PyNone /\ pc \in {"validated", "raised"} /\ WellFormed(doc)) =>
        /\ pc = "validated"
        /\ raised = "none"
        /\ DOMAIN result = {"is_valid", "errors", "warnings"}
        /\ result.is_valid \in BOOLEAN
        /\ result.is_valid <=> (result.errors = <<>>)

\* C1 witness: a well-formed document whose measurements are all null went
\* through validate in strict mode
C1_Witness ==
    /\ Validated /\ strict_mode /\ WellFormed(doc) /\ AllNull(doc)
    /\ result.warnings = <<>> /\ ~result.is_valid

\* C2: both harmonizer entry points return one unified document without
\* raising, for every raw record whose latitude, longitude, elevation,
\* timestamp and measurement values are arbitrary scalars.
C2_HarmonizeTotal ==
    (record # PyNone /\ pc # "raw") => (doc # PyNone /\ raised = "none")

\* the wrapped entries of the measurements literal of the record's source
WrappedFields(rec) ==
    LET fields == IF rec.source = "infoclimat" THEN InfoclimatFields ELSE WundergroundFields
    IN  {fields[i] : i \in {j \in 1..Len(fields) : fields[j][3] # ""}}

\* what the coercion policy asks of a raw measurement value: null for null,
\* for the empty text, for N/A, NULL, NONE in any case and for whatever
\* float() does not parse; the float otherwise
ExpectedValue(v) ==
    IF IsNone(v) THEN PyNone
    ELSE IF IsText(v) /\ Upper(v.s) \in {<<>>, <<"N","/","A">>, <<"N","U","L","L">>, <<"N","O","N","E">>}
    THEN PyNone
    ELSE IF py_float(v).exc # "none" THEN PyNone
    ELSE py_float(v).val

\* C3: every raw measurement value passed through _create_measurement gives
\* a Measurement whose value is null when the raw value is null, empty,
\* N/A / NULL / NONE in any case or does not parse as a float, and is the
\* float otherwise; its unit is the unit given for the field.
C3_Coercion ==
    (record # PyNone /\ pc # "raw") =>
        \A field \in WrappedFields(record) :
            LET v == Get(record.measurements, field[2])
            IN  /\ _create_measurement(v, field[3]).exc = "none"
                /\ doc # PyNone =>
                      EntryOf(doc.measurements, field[1]) =
                          [value |-> ExpectedValue(v), unit |-> field[3]]

\* C4: in a document produced by either entry point, location_geo is
\* non-null exactly when latitude and longitude both are, and it is then
\* {type: "Point", coordinates: [longitude, latitude]} with the values of
\* station.location.
C4_GeoPoint ==
    Harmonized =>
        LET location == doc.station.location
            geo == doc.station.location_geo
        IN  /\ (geo # PyNone) <=> (location.latitude # PyNone /\ location.longitude # PyNone)
            /\ geo # PyNone =>
                  geo = [type |-> "Point",
                         coordinates |-> <<location.longitude, location.latitude>>]

\* C4 witness: a harmonized document with a location_geo whose two
\* coordinates differ
C4_Witness ==
    /\ Harmonized
    /\ doc.station.location_geo # PyNone
    /\ doc.station.location_geo.coordinates[1] # doc.station.location_geo.coordinates[2]

\* a harmonized document without location_geo although one coordinate parsed
C4_WitnessNull ==
    /\ Harmonized
    /\ doc.station.location_geo = PyNone
    /\ doc.station.location.latitude # PyNone

\* the messages validate handed back, errors first
Emitted == result.errors \o result.warnings

WarningKinds ==
    {"hors plage normale", "Timestamp ancien (> 1 an)",
     "Point de rosée > température", "Rafales < vent moyen"}

\* C5: for a document that in non-strict mode yields no errors and at least
\* one warning, validating it in strict mode (same clock) returns is_valid
\* false, the non-strict warnings as its errors, in order, and no warnings.
C5_StrictEquivalence ==
    [][(pc = "document" /\ pc' = "validated" /\ strict_mode) =>
          LET lenient == validate(doc, FALSE, now).val
          IN  (lenient.errors = <<>> /\ lenient.warnings # <<>>) =>
                  /\ result'.is_valid = FALSE
                  /\ result'.errors = lenient.warnings
                  /\ result'.warnings = <<>>]_vars

\* C5 witness: strict validation turned two warnings into the only errors
C5_Witness ==
    /\ Validated /\ strict_mode
    /\ ~result.is_valid /\ result.warnings = <<>>
    /\ Len(result.errors) >= 2
    /\ \A i \in 1..Len(result.errors) : result.errors[i].msg \in WarningKinds

\* a range message about the named measurement
IsRangeMessage(m, name) == m.msg = "hors plage normale" /\ m.field = name

HasRangeMessage(messages, name) ==
    \E i \in 1..Len(messages) : IsRangeMessage(messages[i], name)

\* v lies outside [lo, hi]; not-a-number lies in no range
Outside(v, lo, hi) ==
    \/ v.k = "nan"
    \/ NumLt(v, PyInt(lo))
    \/ NumLt(PyInt(hi), v)

\* the entries the range check is about: a number under a name of the table
RangeChecked(e) ==
    IsDict(e.m) /\ IsNumber(e.m.value) /\ e.name \in DOMAIN VALID_RANGES

\* every message is a range message, and there is one
OnlyRangeProblems ==
    /\ Emitted # <<>>
    /\ \A i \in 1..Len(Emitted) : Emitted[i].msg = "hors plage normale"

\* C6: for a measurement entry with a non-null value under a name of the
\* range table, validate emits a range warning exactly when the value lies
\* outside the inclusive range; in non-strict mode it is never an error, so
\* a document whose only problem is out-of-range measurements is valid in
\* non-strict mode and invalid in strict mode.
C6_RangeWarning ==
    Validated =>
        /\ \A i \in 1..Len(doc.measurements) :
              LET e == doc.measurements[i]
              IN  RangeChecked(e) =>
                    /\ HasRangeMessage(Emitted, e.name) <=>
                          Outside(e.m.value, VALID_RANGES[e.name][1], VALID_RANGES[e.name][2])
                    /\ ~strict_mode => ~HasRangeMessage(result.errors, e.name)
        /\ OnlyRangeProblems => (result.is_valid <=> ~strict_mode)

\* C6 witness: a value one past the end of its range is warned about and
\* the document is valid in non-strict mode
C6_Witness ==
    /\ Validated /\ ~strict_mode /\ result.is_valid /\ OnlyRangeProblems
    /\ \E i \in 1..Len(doc.measurements) :
          /\ RangeChecked(doc.measurements[i])
          /\ HasRangeMessage(result.warnings, doc.measurements[i].name)

\* a value on the end of its range went through validate with no message
C6_WitnessBound ==
    /\ Validated /\ Emitted = <<>>
    /\ \E i \in 1..Len(doc.measurements) :
          LET e == doc.measurements[i]
          IN  /\ RangeChecked(e)
              /\ e.m.value \in {PyInt(VALID_RANGES[e.name][1]), PyInt(VALID_RANGES[e.name][2])}

HasMissing(messages, field) ==
    \E i \in 1..Len(messages) :
        messages[i].msg = "Champ obligatoire manquant" /\ messages[i].field = field

\* the required fields of a document with their dotted names
RequiredFields(d) ==
    << <<"station.id", d.station.id>>,
       <<"station.name", d.station.name>>,
       <<"station.network", d.station.network>>,
       <<"station.location.latitude", d.station.location.latitude>>,
       <<"station.location.longitude", d.station.location.longitude>>,
       <<"timestamp", d.timestamp>> >>

Coordinates == {"station.location.latitude", "station.location.longitude"}

\* C7 as stated: each of the six required fields that is missing or falsy
\* gets a named error, and such an error makes is_valid false in both modes.
C7_RequiredFalsy ==
    Validated =>
        \A i \in 1..6 :
            LET f == RequiredFields(doc)[i]
            IN  ~Truthy(f[2]) => (HasMissing(result.errors, f[1]) /\ ~result.is_valid)

\* C7: station.id, station.name, station.network and timestamp get a named
\* error exactly when missing or falsy, latitude and longitude exactly when
\* missing or null (a coordinate of 0 is accepted); the error is never a
\* warning and makes is_valid false in both modes.
C7_RequiredFields ==
    Validated =>
        \A i \in 1..6 :
            LET f == RequiredFields(doc)[i]
                absent == IF f[1] \in Coordinates THEN IsNone(f[2]) ELSE ~Truthy(f[2])
            IN  /\ HasMissing(result.errors, f[1]) <=> absent
                /\ ~HasMissing(result.warnings, f[1])
                /\ absent => ~result.is_valid

\* C7 witness: a document with a latitude of 0 was validated and accepted
C7_Witness ==
    /\ Validated /\ result.is_valid
    /\ doc.station.location.latitude \in {PyInt(0), PyFloat(0)}

\* a document without a station name was rejected in non-strict mode
C7_WitnessMissing ==
    /\ Validated /\ ~strict_mode /\ ~result.is_valid
    /\ ~Truthy(doc.station.name)
    /\ HasMissing(result.errors, "station.name")

\* an entry counts as filled when it holds a value
Filled(m) == IF IsDict(m) THEN ~IsNone(m.value) ELSE m # PyNone

CountFilled(measurements) ==
    Cardinality({i \in 1..Len(measurements) : Filled(measurements[i].m)})

\* C8: the completeness_score validate writes is filled / total rounded to
\* 3 decimals, total the number of entries of measurements and filled the
\* number of them with a non-null value; 0.0 without entries; within [0, 1].
C8_Completeness ==
    (Harmonized /\ Validated) =>
        LET total == Len(doc.measurements)
            filled == CountFilled(doc.measurements)
            score == doc.data_quality.completeness_score
        IN  /\ score = IF total = 0 THEN Score(0)
                       ELSE Score(RoundRatio(filled, total, 1000))
            /\ score.milli \in 0..1000

\* C9: a harmonized document has completeness_score and validation_passed
\* null until it is validated; once validate returned, in either mode and
\* whatever the verdict, completeness_score is a number in [0, 1], and an
\* accepted document has validation_passed true.
C9_QualityLifecycle ==
    /\ (Harmonized /\ pc = "document") =>
          /\ doc.data_quality.completeness_score = PyNone
          /\ doc.data_quality.validation_passed = PyNone
    /\ Validated =>
          /\ doc.data_quality.completeness_score # PyNone
          /\ doc.data_quality.completeness_score.t = "float"
          /\ doc.data_quality.completeness_score.milli \in 0..1000
          /\ result.is_valid => doc.data_quality.validation_passed = PyBool(TRUE)

\* C9 witness: a harmonized document was rejected by validate and carries a
\* completeness score strictly between 0 and 1
C9_Witness ==
    /\ Harmonized /\ Validated /\ ~result.is_valid
    /\ doc.data_quality.completeness_score # PyNone
    /\ doc.data_quality.completeness_score.milli \in 1..999

\* a harmonized document was accepted
C9_WitnessAccepted ==
    /\ Harmonized /\ Validated /\ result.is_valid
    /\ doc.data_quality.validation_passed = PyBool(TRUE)

\* C10: generate_report of an empty batch returns, whatever the statistics,
\* a report holding only execution_info, a summary with
\* total_records_processed 0, a message and the supplied error list; it has
\* no by_station, by_network or field_completeness section, and no division
\* is evaluated.
C10_EmptyBatch ==
    (pc \in {"reported", "raised"} /\ records = <<>>) =>
        /\ pc = "reported"
        /\ DOMAIN report = {"execution_info", "summary", "message", "errors"}
        /\ report.summary.total_records_processed = 0
        /\ report.errors = StatsGet(stats, "errors", <<>>)
        /\ divisions = 0

\* C10 witness: the report of an empty batch for a run that extracted and
\* rejected records and logged an error
C10_Witness ==
    /\ pc = "reported" /\ records = <<>>
    /\ StatsGet(stats, "records_extracted", 0) > 0
    /\ StatsGet(stats, "records_rejected", 0) > 0
    /\ report.errors # <<>>

\* generate_report returned the report of a non-empty batch
Reported == pc = "reported" /\ records # <<>>

\* the positions of the batch's documents with a completeness score
Scored(S) == {j \in S : records[j].data_quality.completeness_score # PyNone}

\* the positions of the batch's documents flagged as anomalous
Flagged(S) == {j \in S : records[j].data_quality.anomalies_detected = PyBool(TRUE)}

\* the sum of the scores at the positions of S within lo..hi
RECURSIVE SumWithin(_, _, _)
SumWithin(S, lo, hi) ==
    IF lo > hi THEN 0
    ELSE IF lo = hi
    THEN (IF lo \in S THEN records[lo].data_quality.completeness_score.milli ELSE 0)
    ELSE SumWithin(S, lo, (lo + hi) \div 2) + SumWithin(S, (lo + hi) \div 2 + 1, hi)

SumOfScores(S) == SumWithin(S, 1, Len(records))

\* avg is the mean of the scores of the documents at the positions S,
\* rounded to 3 decimals (a nearest thousandth), and 0 when none has a score
IsRoundedMean(avg, S) ==
    IF Scored(S) = {} THEN avg = PyInt(0)
    ELSE /\ "milli" \in DOMAIN avg
         /\ 2 * (avg.milli * Cardinality(Scored(S)) - SumOfScores(Scored(S))) <= Cardinality(Scored(S))
         /\ 2 * (SumOfScores(Scored(S)) - avg.milli * Cardinality(Scored(S))) <= Cardinality(Scored(S))

\* the keys of a section of the report are pairwise distinct
DistinctKeys(section) ==
    \A i, k \in 1..Len(section) : section[i].key = section[k].key => i = k

OfStation(id) == {j \in 1..Len(records) : records[j].station.id = id}

\* C11: in the report of a non-empty batch, by_station has one entry per
\* distinct station.id of the batch; the entry's records is the number of
\* documents with that id, its avg_completeness the mean of their non-null
\* completeness scores rounded to 3 decimals (0 without any), its anomalies
\* the number of them with anomalies_detected true.
C11_ByStation ==
    Reported =>
        /\ {report.by_station[i].key : i \in 1..Len(report.by_station)}
              = {records[j].station.id : j \in 1..Len(records)}
        /\ DistinctKeys(report.by_station)
        /\ \A i \in 1..Len(report.by_station) :
              LET e == report.by_station[i]
              IN  /\ e.val.records = Cardinality(OfStation(e.key))
                  /\ IsRoundedMean(e.val.avg_completeness, OfStation(e.key))
                  /\ e.val.anomalies = Cardinality(Flagged(OfStation(e.key)))

\* C11 witness: two documents of one station with scores 0.0 and 1.0, one
\* of them anomalous, are reported with an average of 0.5
C11_Witness ==
    /\ Reported
    /\ \E i \in 1..Len(report.by_station) :
          /\ report.by_station[i].val.records = 2
          /\ report.by_station[i].val.anomalies = 1
          /\ report.by_station[i].val.avg_completeness = Score(500)

\* a station whose only document has no score is reported with average 0
C11_WitnessUnscored ==
    /\ Reported
    /\ \E i \in 1..Len(report.by_station) :
          /\ report.by_station[i].val.records = 1
          /\ report.by_station[i].val.avg_completeness = PyInt(0)

OfNetwork(network) == {j \in 1..Len(records) : records[j].station.network = network}

\* C12: in the report of a non-empty batch, by_network has one entry per
\* distinct station.network of the batch; the entry's records is the number
\* of documents of that network, its stations_count the number of distinct
\* station ids among them, its avg_completeness the mean of their non-null
\* completeness scores rounded to 3 decimals.
C12_ByNetwork ==
    Reported =>
        /\ {report.by_network[i].key : i \in 1..Len(report.by_network)}
              = {records[j].station.network : j \in 1..Len(records)}
        /\ DistinctKeys(report.by_network)
        /\ \A i \in 1..Len(report.by_network) :
              LET e == report.by_network[i]
              IN  /\ e.val.records = Cardinality(OfNetwork(e.key))
                  /\ e.val.stations_count
                        = Cardinality({records[j].station.id : j \in OfNetwork(e.key)})
                  /\ IsRoundedMean(e.val.avg_completeness, OfNetwork(e.key))

\* C12 witness: two documents of one station are reported under their
\* network with records 2 and stations_count 1
C12_Witness ==
    /\ Reported
    /\ Len(report.by_network) = 1
    /\ report.by_network[1].val.records = 2
    /\ report.by_network[1].val.stations_count = 1

\* a batch of two networks; a network with two stations
C12_WitnessNetworks ==
    /\ Reported
    /\ \/ Len(report.by_network) = 2
       \/ report.by_network[1].val.stations_count = 2

\* the five counts of the summary are those of the run statistics
CountsOfStats(summary) ==
    /\ {"total_records_processed", "records_transformed", "records_validated",
        "records_loaded", "records_rejected", "rejection_rate"} \subseteq DOMAIN summary
    /\ summary.total_records_processed = StatsGet(stats, "records_extracted", 0)
    /\ summary.records_transformed = StatsGet(stats, "records_transformed", 0)
    /\ summary.records_validated = StatsGet(stats, "records_validated", 0)
    /\ summary.records_loaded = StatsGet(stats, "records_loaded", 0)
    /\ summary.records_rejected = StatsGet(stats, "records_rejected", 0)

\* rate is rejected / extracted rounded to 4 decimals (a nearest
\* ten-thousandth), and 0 when nothing was extracted
IsRejectionRate(rate) ==
    LET extracted == StatsGet(stats, "records_extracted", 0)
        rejected == StatsGet(stats, "records_rejected", 0)
    IN  IF extracted = 0 THEN rate = Rate(0)
        ELSE /\ "e4" \in DOMAIN rate
             /\ 2 * (rate.e4 * extracted - 10000 * rejected) <= extracted
             /\ 2 * (10000 * rejected - rate.e4 * extracted) <= extracted

\* C13 as stated: the summary of every report carries the processed,
\* transformed, validated, loaded and rejected counts of the run statistics
\* and the rejection rate derived from them.
C13_Summary ==
    pc = "reported" =>
        (CountsOfStats(report.summary) /\ IsRejectionRate(report.summary.rejection_rate))

\* C13: the summary of the report of a non-empty batch carries the
\* processed, transformed, validated, loaded and rejected counts of the run
\* statistics unchanged and rejection_rate = rejected / extracted rounded to
\* 4 decimals, 0 when nothing was extracted; the summary of the report of an
\* empty batch has four counts, all 0 whatever the statistics, and neither
\* records_transformed nor rejection_rate.
C13_SummaryOfBatch ==
    /\ Reported =>
          (CountsOfStats(report.summary) /\ IsRejectionRate(report.summary.rejection_rate))
    /\ (pc = "reported" /\ records = <<>>) =>
          report.summary = [total_records_processed |-> 0, records_validated |-> 0,
                            records_loaded |-> 0, records_rejected |-> 0]

\* C13 witness: the report of a non-empty batch of a run that rejected one
\* of its two or more records has a rejection rate strictly between 0 and 1
\* and a loaded count that differs from the validated count
C13_Witness ==
    /\ Reported
    /\ report.summary.rejection_rate.e4 \in 1..9999
    /\ report.summary.records_loaded # report.summary.records_validated

\* the report of a non-empty batch for statistics without any key
C13_WitnessNoStats ==
    /\ Reported /\ stats = EmptyStats
    /\ report.summary.rejection_rate = Rate(0)

\* C14: the anomalies list of a report never has more than 100 entries;
\* of the k documents of the batch flagged anomalies_detected = true it
\* holds the first min(100, k) in input order, the record_index of each
\* entry being the position (from 0) of its document in the batch.
C14_AnomaliesCap ==
    Reported =>
        /\ Len(report.anomalies) <= 100
        /\ Len(report.anomalies) <= Cardinality(Flagged(1..Len(records)))
        /\ Len(report.anomalies) = 100
              \/ Len(report.anomalies) = Cardinality(Flagged(1..Len(records)))
        /\ \A i \in 1..Len(report.anomalies) :
              /\ report.anomalies[i].record_index + 1 \in Flagged(1..Len(records))
              /\ Cardinality(Flagged(1..report.anomalies[i].record_index)) = i - 1
              /\ report.anomalies[i].station_id
                    = records[report.anomalies[i].record_index + 1].station.id

\* C14 witness: a batch with more than 100 anomalous documents, the first
\* document not being one, is reported with the 100 first of them
C14_Witness ==
    /\ Reported
    /\ Cardinality(Flagged(1..Len(records))) > 100
    /\ Len(report.anomalies) = 100
    /\ report.anomalies[1].record_index = 1
    /\ report.anomalies[100].record_index = 100

\* the three checks of the location: field, message, inclusive bounds
LocationChecks ==
    { <<"latitude", "Latitude hors limites", -90, 90>>,
      <<"longitude", "Longitude hors limites", -180, 180>>,
      <<"elevation", "Élévation improbable", -500, 9000>> }

HasMessage(messages, msg) == \E i \in 1..Len(messages) : messages[i].msg = msg

\* C15: validate adds an error for a latitude that is present and outside
\* [-90, 90], for a longitude that is present and outside [-180, 180] and
\* for an elevation that is present and outside [-500, 9000], and for no
\* other value: none on the bounds, none for an absent value; the error is
\* never a warning and makes the document invalid.
C15_Location ==
    Validated =>
        \A c \in LocationChecks :
            LET v == doc.station.location[c[1]]
            IN  /\ HasMessage(result.errors, c[2]) <=> (IsNumber(v) /\ Outside(v, c[3], c[4]))
                /\ ~HasMessage(result.warnings, c[2])
                /\ HasMessage(result.errors, c[2]) => ~result.is_valid

\* C15 witness: a document whose only flaw is a latitude one degree past
\* the bound was rejected in non-strict mode
C15_Witness ==
    /\ Validated /\ ~strict_mode /\ ~result.is_valid
    /\ doc.station.location.latitude \in {PyInt(91), PyInt(-91)}
    /\ Len(result.errors) = 1
    /\ HasMessage(result.errors, "Latitude hors limites")

\* an elevation on a bound, and an absent elevation, were accepted
C15_WitnessBound ==
    /\ Validated /\ result.is_valid
    /\ doc.station.location.elevation \in {PyInt(9000), PyInt(-500)}

C15_WitnessAbsent ==
    /\ Validated /\ result.is_valid
    /\ doc.station.location.elevation = PyNone

\* an elevation past a bound was rejected
C15_WitnessElevation ==
    /\ Validated /\ ~result.is_valid
    /\ doc.station.location.elevation \in {PyInt(9001), PyInt(-501)}
    /\ HasMessage(result.errors, "Élévation improbable")

\* the layouts of an ISO-8601 date and time
IsoLayouts ==
    {"iso_T_sec", "iso_sp_sec", "iso_T_min", "iso_date", "iso_T_sec_off", "iso_T_sec_Z"}

IsIso(ts) == IsTimeText(ts) /\ ts.layout \in IsoLayouts

\* the instant an ISO text denotes in minutes, a text without offset read
\* as UTC
InstantOf(ts) == ts.at - ts.off

TimestampMessages == {"Timestamp invalide", "Timestamp dans le futur", "Timestamp ancien (> 1 an)"}

\* C16: for a present timestamp validate adds an error when the value is no
\* ISO-8601 text or denotes an instant strictly later than the current UTC
\* time, adds a warning (in non-strict mode never an error) when the instant
\* is more than 365 days before now, and nothing otherwise; a missing
\* timestamp gets the required-field error and no timestamp message.
C16_Timestamp ==
    Validated =>
        IF ~Truthy(doc.timestamp)
        THEN /\ HasMissing(result.errors, "timestamp")
             /\ \A m \in TimestampMessages : ~HasMessage(Emitted, m)
        ELSE /\ ~HasMissing(Emitted, "timestamp")
             /\ HasMessage(result.errors, "Timestamp invalide") <=> ~IsIso(doc.timestamp)
             /\ HasMessage(result.errors, "Timestamp dans le futur")
                   <=> (IsIso(doc.timestamp) /\ InstantOf(doc.timestamp) > now)
             /\ HasMessage(Emitted, "Timestamp ancien (> 1 an)")
                   <=> (IsIso(doc.timestamp)
                        /\ InstantOf(doc.timestamp) < now - 365 * MinutesPerDay)
             /\ ~HasMessage(result.warnings, "Timestamp invalide")
             /\ ~HasMessage(result.warnings, "Timestamp dans le futur")
             /\ ~strict_mode => ~HasMessage(result.errors, "Timestamp ancien (> 1 an)")
             /\ (HasMessage(result.errors, "Timestamp invalide")
                 \/ HasMessage(result.errors, "Timestamp dans le futur")) => ~result.is_valid

\* C16 witness: a timestamp with an offset whose wall-clock reading is past
\* the clock but whose instant is not was accepted without a message
C16_Witness ==
    /\ Validated /\ result.is_valid /\ Emitted = <<>>
    /\ IsIso(doc.timestamp)
    /\ doc.timestamp.at > now /\ InstantOf(doc.timestamp) < now

\* a timestamp one minute in the future was rejected; the current minute is
\* accepted
C16_WitnessFuture ==
    /\ Validated /\ ~result.is_valid
    /\ IsIso(doc.timestamp) /\ InstantOf(doc.timestamp) = now + 1
    /\ HasMessage(result.errors, "Timestamp dans le futur")

C16_WitnessNow ==
    /\ Validated /\ result.is_valid /\ Emitted = <<>>
    /\ IsIso(doc.timestamp) /\ InstantOf(doc.timestamp) = now

\* a timestamp of 365 days and one minute ago is warned about and accepted
\* in non-strict mode
C16_WitnessOld ==
    /\ Validated /\ ~strict_mode /\ result.is_valid
    /\ IsIso(doc.timestamp) /\ InstantOf(doc.timestamp) = now - 365 * MinutesPerDay - 1
    /\ HasMessage(result.warnings, "Timestamp ancien (> 1 an)")

\* a text that is no ISO date was rejected
C16_WitnessInvalid ==
    /\ Validated /\ ~result.is_valid
    /\ Truthy(doc.timestamp) /\ ~IsIso(doc.timestamp)
    /\ HasMessage(result.errors, "Timestamp invalide")

\* the value of the named measurement of doc, None without such an entry
ValueIn(name) ==
    IF HasEntry(doc.measurements, name) /\ IsDict(EntryOf(doc.measurements, name))
    THEN EntryOf(doc.measurements, name).value
    ELSE PyNone

\* both values are present and a < b
BothAndLess(a, b) == IsNumber(a) /\ IsNumber(b) /\ NumLt(a, b)

\* C17: validate emits the dew-point message exactly when dewpoint.value and
\* temperature.value are both non-null and dewpoint.value > temperature.value,
\* and the gust message exactly when wind_gust.value and wind_speed.value
\* are both non-null and wind_gust.value < wind_speed.value (none for equal
\* values); in non-strict mode both are warnings, never errors.
C17_CrossField ==
    Validated =>
        /\ HasMessage(Emitted, "Point de rosée > température")
              <=> BothAndLess(ValueIn("temperature"), ValueIn("dewpoint"))
        /\ HasMessage(Emitted, "Rafales < vent moyen")
              <=> BothAndLess(ValueIn("wind_gust"), ValueIn("wind_speed"))
        /\ ~strict_mode =>
              /\ ~HasMessage(result.errors, "Point de rosée > température")
              /\ ~HasMessage(result.errors, "Rafales < vent moyen")

\* C17 witness: the document with temperature 15.0, dew point 20.0, mean
\* wind 30 and gust 20 was accepted in non-strict mode with both warnings
C17_Witness ==
    /\ Validated /\ ~strict_mode /\ result.is_valid
    /\ ValueIn("temperature") = PyFloat(150) /\ ValueIn("dewpoint") = PyFloat(200)
    /\ ValueIn("wind_speed") = PyInt(30) /\ ValueIn("wind_gust") = PyInt(20)
    /\ HasMessage(result.warnings, "Point de rosée > température")
    /\ HasMessage(result.warnings, "Rafales < vent moyen")

\* equal values went through without a message
C17_WitnessEqual ==
    /\ Validated /\ Emitted = <<>>
    /\ ValueIn("temperature") = PyFloat(150) /\ ValueIn("dewpoint") = PyInt(15)
    /\ ValueIn("wind_speed") = PyInt(30) /\ ValueIn("wind_gust") = PyFloat(300)

\* a dew point above a null temperature went through without a message
C17_WitnessNull ==
    /\ Validated /\ Emitted = <<>>
    /\ HasEntry(doc.measurements, "temperature") /\ ValueIn("temperature") = PyNone
    /\ IsNumber(ValueIn("dewpoint"))

\* C18: generate_report returns a report for every batch of well-formed
\* documents, whatever the mix of naive, Z-suffixed and offset timestamps;
\* no exception escapes it.
C18_ReportTotal == pc # "batch" => (pc = "reported" /\ raised = "none")

\* C19: every entry of the measurements of a document built by either
\* harmonizer is a {value, unit} pair whose value is a float or null and
\* whose unit is a string; no entry is a bare scalar.
C19_MeasurementPairs ==
    Harmonized =>
        \A i \in 1..Len(doc.measurements) :
            LET m == doc.measurements[i].m
            IN  /\ IsDict(m)
                /\ DOMAIN m = {"value", "unit"}
                /\ m.value.t \in {"None", "float"}
                /\ m.unit \in STRING

C20_WitnessRaised ==
    /\ pc = "raised" /\ records # <<>>
    /\ StatsGet(stats, "errors", <<>>) # <<>>

\* C21: in a dry run nothing is written to MongoDB: the collection stays as
\* it was, records_loaded stays 0 and load_data returns 0; once load_data
\* has returned, records_loaded_simulated (0 when it was never set) is the
\* number of validated documents, in self.stats and in every status file.
C21_DryRun ==
    dry_run =>
        /\ collection = <<>>
        /\ stats.records_loaded = 0
        /\ load_result # PyNone =>
              /\ load_result = PyInt(0)
              /\ StatsGet(stats, "records_loaded_simulated", 0) = Len(valid)
              /\ \A i \in 1..Len(status_files) :
                    /\ status_files[i].records_loaded = 0
                    /\ status_files[i].records_loaded_simulated = Len(valid)

\* C21 witness: a dry run returned after load_data was handed two validated
\* documents
C21_Witness ==
    /\ dry_run /\ stage = "returned"
    /\ Len(valid) = 2 /\ load_result = PyInt(0)
    /\ stats.records_loaded_simulated = 2
    /\ Len(status_files) = 1

\* the same batch in a run that is not dry reached the collection
C21_WitnessLive ==
    /\ ~dry_run /\ stage = "returned"
    /\ Len(valid) = 2 /\ collection = valid /\ stats.records_loaded = 2

\* the positions of the log of calls that hold a call of op
CallsOf(op) == {p \in 1..Len(calls) : calls[p].op = op}

\* the positions of the log that hold a harmonizer call for the source
HarmonizedOf(source) == {p \in CallsOf("harmonize") : calls[p].source = source}

\* C22 as stated: records are processed one at a time, record N is
\* harmonized and validated before record N+1 is harmonized: whenever a
\* harmonizer is called, every document harmonized so far has been validated.
C22_OneAtATime ==
    [][(Len(calls') > Len(calls) /\ calls'[Len(calls')].op = "harmonize")
          => Cardinality(CallsOf("validate")) = Len(results)]_vars

\* C22 amended: the run works in two passes. Every extracted record is
\* harmonized, the synoptic ones in their order and then the crowd-sourced
\* ones in their order, before the first document is validated; the
\* documents are then validated in the order they were harmonized in.
C22_TwoPasses ==
    /\ \A p \in CallsOf("validate") :
          /\ \A q \in CallsOf("harmonize") : q < p
          /\ Cardinality(CallsOf("harmonize")) = stats.records_extracted
          /\ calls[p].index <= Len(results)
          /\ calls[p].index = p - Cardinality(CallsOf("harmonize"))
    /\ \A p \in HarmonizedOf("infoclimat") : calls[p].index = p
    /\ \A p \in HarmonizedOf("wunderground") :
          calls[p].index = p - Cardinality(HarmonizedOf("infoclimat"))
    /\ stage \notin {"extract", "transform", "validate"} =>
          Cardinality(CallsOf("validate")) = Len(results)

\* C22 witness: two records were harmonized, one of each source, and then
\* the two documents were validated
C22_Witness ==
    /\ Len(calls) = 4
    /\ calls[1].op = "harmonize" /\ calls[1].source = "infoclimat"
    /\ calls[2].op = "harmonize" /\ calls[2].source = "wunderground"
    /\ calls[3].op = "validate" /\ calls[3].index = 1
    /\ calls[4].op = "validate" /\ calls[4].index = 2

\* the positions of the documents validate accepted, in order
Accepted ==
    SelectSeq([j \in 1..Len(results) |-> j],
              LAMBDA j : \E p \in CallsOf("validate") :
                            calls[p].index = j /\ calls[p].outcome = "valid")

\* C23: validate_data returns exactly the documents for which validate
\* returned is_valid = true, in their input order and each once; the input
\* sequence keeps every document transform_data returned, the rejected ones
\* included, each validated once.
C23_ValidateData ==
    stage \notin {"extract", "transform"} =>
        /\ valid = [n \in 1..Len(Accepted) |-> results[Accepted[n]]]
        /\ Len(results) = stats.records_transformed
        /\ \A j \in 1..Len(results) :
              Cardinality({p \in CallsOf("validate") : calls[p].index = j})
                 = IF stage = "validate" /\ j > cursor THEN 0 ELSE 1

\* C23 witness: validate_data was handed two documents, rejected the first
\* and returned the second
C23_Witness ==
    /\ stage = "save_processed_s3"
    /\ Len(results) = 2 /\ Len(valid) = 1 /\ valid[1] = results[2]
    /\ results[1].data_quality.validation_passed = PyBool(FALSE)

\* both documents were returned, in their order
C23_WitnessBoth ==
    /\ stage = "save_processed_s3"
    /\ Len(results) = 2 /\ valid = results /\ results[1] # results[2]

\* in strict mode a document with warnings only was left out
C23_WitnessStrict ==
    /\ stage = "save_processed_s3" /\ strict_mode
    /\ Len(results) = 2 /\ Len(valid) = 1 /\ valid[1] = results[1]
    /\ results[2].data_quality.validation_passed = PyBool(TRUE)

\* the messages validate emitted as warnings, before any promotion
WarningsBefore == SelectSeq(Emitted, LAMBDA m : m.msg \in WarningKinds)

\* the messages validate emitted as errors, before any promotion
ErrorsBefore == SelectSeq(Emitted, LAMBDA m : m.msg \notin WarningKinds)

\* the names of the measurements of d without a value, in order
NullMeasurements(d) ==
    LET empty == SelectSeq(d.measurements, LAMBDA e : ~Filled(e.m))
    IN  [i \in 1..Len(empty) |-> empty[i].name]

\* C24: validate annotates the document from the lists as they are before
\* the strict-mode promotion: missing_fields names the measurements whose
\* value is null, validation_passed tells that no error was found and
\* anomalies_detected that a warning was; so a strict validation of a
\* document with warnings only returns is_valid false on a document marked
\* validation_passed and anomalies_detected, and in non-strict mode
\* validation_passed is is_valid.
C24_Annotation ==
    Validated =>
        /\ doc.data_quality.missing_fields = NullMeasurements(doc)
        /\ doc.data_quality.validation_passed = PyBool(ErrorsBefore = <<>>)
        /\ doc.data_quality.anomalies_detected = PyBool(WarningsBefore # <<>>)
        /\ (strict_mode /\ WarningsBefore # <<>> /\ ErrorsBefore = <<>>) =>
              /\ ~result.is_valid
              /\ doc.data_quality.validation_passed = PyBool(TRUE)
              /\ doc.data_quality.anomalies_detected = PyBool(TRUE)
        /\ ~strict_mode => doc.data_quality.validation_passed = PyBool(result.is_valid)

\* the reference dates a caller may supply: none, and the day of the clock
ReferenceDates == {PyNone, TimeText("iso_date", Clock - (Clock % MinutesPerDay), 0)}

\* a bare time of day joined to the reference date, when there is one
WithReference(text, file_date) ==
    IF IsTimeText(text) /\ text.layout \in {"hm", "hms"} /\ file_date # PyNone
    THEN TimeText(IF text.layout = "hm" THEN "iso_T_min" ELSE "iso_T_sec",
                  file_date.at + text.at, 0)
    ELSE text

\* the parses of a raw timestamp, in the order they are tried
Attempts(raw, file_date) ==
    LET text == TextOf(raw)
        iso == ReplaceBlankByT(WithReference(text, file_date))
    IN  <<strptime(text, "%m/%d/%y %I:%M %p"),
          strptime(text, "%m/%d/%y %I:%M:%S %p"),
          strptime(iso, "%Y-%m-%dT%H:%M:%S"),
          strptime(iso, "%Y-%m-%dT%H:%M"),
          strptime(iso, "%Y-%m-%d"),
          fromisoformat(iso)>>

\* the ISO form given by the first attempt that succeeds, None without one
FirstSuccess(attempts) ==
    LET done == {i \in 1..Len(attempts) : attempts[i].exc = "none"}
    IN  IF done = {} THEN PyNone
        ELSE isoformat(attempts[CHOOSE i \in done : \A j \in done : i <= j].val)

\* C25: the crowd-sourced entry point stores the ISO form given by the first
\* successful parse of the raw timestamp (US AM/PM without then with
\* seconds, a bare time joined to the reference date when one is supplied,
\* the ISO layouts after the blank became a T, the ISO parser), and None when
\* every parse fails or the raw value is None; the synoptic entry point
\* stores the raw timestamp unchanged.
C25_ParseTimestamp ==
    Harmonized =>
        /\ record.source = "infoclimat" => doc.timestamp = record.timestamp
        /\ record.source = "wunderground" =>
              /\ doc.timestamp = IF record.timestamp = PyNone THEN PyNone
                                 ELSE FirstSuccess(Attempts(record.timestamp, PyNone))
              /\ \A file_date \in ReferenceDates :
                    _parse_timestamp(record.timestamp, file_date)
                       = IF record.timestamp = PyNone THEN PyNone
                         ELSE FirstSuccess(Attempts(record.timestamp, file_date))

\* C25 witness: a US text with seconds was stored in its ISO form
C25_Witness ==
    /\ Harmonized /\ record.source = "wunderground"
    /\ IsTimeText(record.timestamp) /\ record.timestamp.layout = "us_ampm_sec"
    /\ doc.timestamp = TimeText("iso_T_sec", record.timestamp.at, 0)

\* a bare time of day, for which no reference date is supplied, became None
C25_WitnessBare ==
    /\ Harmonized /\ record.source = "wunderground"
    /\ IsTimeText(record.timestamp) /\ record.timestamp.layout = "hm"
    /\ doc.timestamp = PyNone
    /\ \E file_date \in ReferenceDates :
          _parse_timestamp(record.timestamp, file_date) # PyNone

\* the synoptic entry point kept a blank-separated text as it was
C25_WitnessSynop ==
    /\ Harmonized /\ record.source = "infoclimat"
    /\ IsTimeText(record.timestamp) /\ record.timestamp.layout = "iso_sp_sec"
    /\ doc.timestamp = record.timestamp

\* the positions of the batch's documents whose timestamp is an ISO text
Timed == {j \in 1..Len(records) : IsIso(records[j].timestamp)}

\* C26: for a non-empty batch the temporal analysis leaves out the documents
\* whose timestamp is missing or no ISO text and reports records_count = the
\* number of the others, their earliest and latest timestamps (min <= max)
\* and the hours between the two rounded to 2 decimals, never negative; when
\* no timestamp parses it reports null, null, 0 and 0.
C26_Temporal ==
    (pc # "batch" /\ records # <<>>) =>
        /\ pc = "reported"
        /\ LET t == report.temporal_analysis
           IN  /\ t.records_count = Cardinality(Timed)
               /\ IF Timed = {}
                  THEN /\ t.min_timestamp = PyNone /\ t.max_timestamp = PyNone
                       /\ t.time_span_hours = PyInt(0)
                  ELSE /\ IsIso(t.min_timestamp) /\ IsIso(t.max_timestamp)
                       /\ \E lo, hi \in Timed :
                             /\ InstantOf(t.min_timestamp) = InstantOf(records[lo].timestamp)
                             /\ InstantOf(t.max_timestamp) = InstantOf(records[hi].timestamp)
                             /\ \A j \in Timed :
                                   /\ InstantOf(records[lo].timestamp) <= InstantOf(records[j].timestamp)
                                   /\ InstantOf(records[j].timestamp) <= InstantOf(records[hi].timestamp)
                       /\ InstantOf(t.min_timestamp) <= InstantOf(t.max_timestamp)
                       /\ t.time_span_hours
                             = Hours(RoundRatio(InstantOf(t.max_timestamp) - InstantOf(t.min_timestamp),
                                                60, 100))
                       /\ t.time_span_hours.centi >= 0

\* the positions of the batch's documents that passed validation
Passed == {j \in 1..Len(records) : records[j].data_quality.validation_passed = PyBool(TRUE)}

\* the lowest and the highest score of the batch, in thousandths
ScoresInBatch == {records[j].data_quality.completeness_score.milli : j \in Scored(1..Len(records))}

\* C27: in the report of a non-empty batch, data_quality_scores holds the
\* mean, min and max of the non-null completeness scores (min <= mean <=
\* max), the number of documents with validation_passed true and of those
\* with anomalies_detected true, and each number divided by the batch size;
\* the two numbers count the batch's documents also when no document has a
\* score.
C27_QualityScores ==
    Reported =>
        LET q == report.data_quality_scores
        IN  /\ IsRoundedMean(q.avg_completeness, 1..Len(records))
            /\ ScoresInBatch # {} =>
                  /\ q.min_completeness.milli \in ScoresInBatch
                  /\ q.max_completeness.milli \in ScoresInBatch
                  /\ \A m \in ScoresInBatch :
                        q.min_completeness.milli <= m /\ m <= q.max_completeness.milli
                  /\ q.min_completeness.milli <= q.avg_completeness.milli
                  /\ q.avg_completeness.milli <= q.max_completeness.milli
            /\ q.validation_passed = Cardinality(Passed)
            /\ q.anomalies_detected = Cardinality(Flagged(1..Len(records)))
            /\ "validation_passed_rate" \in DOMAIN q
            /\ "anomalies_rate" \in DOMAIN q
            /\ q.validation_passed_rate = Score(RoundRatio(Cardinality(Passed), Len(records), 1000))
            /\ q.anomalies_rate
                  = Score(RoundRatio(Cardinality(Flagged(1..Len(records))), Len(records), 1000))

\* C28: validate writes the data_quality section only, leaving station,
\* timestamp, measurements and metadata as they were; and a second
\* validation of the document, at the same clock and in the same mode,
\* returns the result of the first and leaves data_quality as the first did.
C28_FrameAndRepeat ==
    [][(pc \in {"document", "validated"} /\ pc' # pc) =>
          /\ doc'.station = doc.station
          /\ doc'.timestamp = doc.timestamp
          /\ doc'.measurements = doc.measurements
          /\ doc'.metadata = doc.metadata
          /\ pc = "validated" =>
                /\ pc' = "revalidated"
                /\ result' = result
                /\ doc'.data_quality = doc.data_quality]_vars

\* C28 witness: a document with missing measurements and a warning was
\* validated twice
C28_Witness ==
    /\ pc = "revalidated"
    /\ doc.data_quality.missing_fields # <<>>
    /\ doc.data_quality.anomalies_detected = PyBool(TRUE)
    /\ result.warnings # <<>>

\* a harmonized document, whose data_quality the first validation filled in,
\* was validated twice in strict mode
C28_WitnessStrict ==
    /\ pc = "revalidated" /\ record # PyNone /\ strict_mode
    /\ doc.data_quality.completeness_score # PyNone
    /\ ~result.is_valid

\* the positions of the log that hold a validation that did not accept
RejectedByValidation == {p \in CallsOf("validate") : calls[p].outcome # "valid"}

\* the positions of the log that hold a harmonization that raised
RejectedByHarmonizer == {p \in CallsOf("harmonize") : calls[p].outcome # "document"}

\* C29: once extract_data, transform_data and validate_data have run on a
\* fresh pipeline every extracted record is counted once: records_extracted
\* = records_validated + records_rejected, and records_transformed =
\* records_validated + the number of documents validation rejected,
\* whichever records fail in harmonization or in validation; so the
\* rejection_rate of the report lies between 0 and 1.
C29_Counts ==
    stage \notin {"extract", "transform", "validate"} =>
        /\ stats.records_extracted
              = Len(extracted_data.infoclimat) + Len(extracted_data.wunderground)
        /\ stats.records_extracted = stats.records_validated + stats.records_rejected
        /\ stats.records_transformed
              = stats.records_validated + Cardinality(RejectedByValidation)
        /\ stats.records_rejected
              = Cardinality(RejectedByHarmonizer) + Cardinality(RejectedByValidation)
        /\ (report # PyNone /\ "rejection_rate" \in DOMAIN report.summary) =>
              /\ report.summary.rejection_rate.e4 >= 0
              /\ report.summary.rejection_rate.e4 <= 10000

\* C29 witness: of two extracted records one failed in harmonization and the
\* other was rejected by validation
C29_Witness ==
    /\ stage = "save_processed_s3"
    /\ stats.records_extracted = 2 /\ stats.records_rejected = 2
    /\ Cardinality(RejectedByHarmonizer) = 1 /\ Cardinality(RejectedByValidation) = 1

\* one of two records was rejected and the report gives a rate of one half
C29_WitnessReport ==
    /\ stage = "latency"
    /\ stats.records_extracted = 2 /\ stats.records_rejected = 1
    /\ report.summary.rejection_rate = Rate(5000)

\* the stage that follows a stage that returned
StageAfter(s) ==
    CASE s = "extract" -> "transform"
      [] s = "transform" -> "validate"
      [] s = "validate" -> "save_processed_s3"
      [] s = "save_processed_s3" -> "load"
      [] s = "load" -> "report"
      [] s = "report" -> "latency"

C30_WitnessLatency ==
    /\ stage = "returned" /\ "latency" \in faults /\ ~dry_run
    /\ Len(status_files) = 1 /\ status_files[1].status = "SUCCESS"
    /\ report # PyNone

\* the publication failed: run returned, status SUCCESS
C30_WitnessPublish ==
    /\ stage = "returned" /\ "publish" \in faults
    /\ Len(status_files) = 1 /\ status_files[1].status = "SUCCESS"

\* the report stage raised: the status file says FAILED after load ran
C30_WitnessReport ==
    /\ stage = "raised" /\ load_result # PyNone
    /\ Len(status_files) = 1 /\ status_files[1].status = "FAILED"

=============================================================================
